---- MODULE Spec2Model ----
(***************************************************************************)
(* A model of mio's readiness core.                                        *)
(*                                                                         *)
(*   Part 1  the epoll selector (src/src/os/epoll.rs) together with the    *)
(*           kernel's epoll instance it drives, the sockets registered     *)
(*           with it and the Events batch a select fills.                  *)
(*   Part 2  a custom registration (Registration / SetReadiness), whose    *)
(*           implementation is not among the sources: it follows section   *)
(*           4.4 of the specification and test/test_custom_evented.rs.     *)
(*   Part 3  a socket and its try_clone registered with two selectors      *)
(*           (src/src/sys/unix/udp.rs, src/src/sys/unix/net.rs).           *)
(*   Part 4  the wakers: the pipe Awakener (src/src/sys/unix/awakener.rs)  *)
(*           registered with the epoll selector, and the Waker that posts  *)
(*           to a completion port (src/src/sys/windows/awakener.rs).       *)
(*                                                                         *)
(* The kernel's side of epoll_ctl / epoll_wait is written out next to the  *)
(* call that reaches it, following epoll(7): an interest list, a FIFO      *)
(* ready list, EPOLLET / EPOLLONESHOT, and EPOLLERR | EPOLLHUP always      *)
(* reported.                                                               *)
(*                                                                         *)
(* A run has one kind of source (the variable scene): sockets on epoll, a  *)
(* custom registration, a cloned socket, a pipe awakener or a port waker.  *)
(***************************************************************************)
EXTENDS Integers, Sequences, FiniteSets, TLC

\* ------------------------------------------------------------------ bounds
NFds == 2
MaxToken == 1
EventsCap == 1
NSelectors == 2
PipeCap == 2
PortCap == 2
MaxCleanups == 2
NRegs == 2
MaxCount == 2
MaxBytes == 4

\* The size of the buffer cleanup reads into (awakener.rs, line 45).
CleanupBuf == 128

\* Sockets are known by the descriptor that opened them, 1..NFds; the next
\* descriptor is the one a try_clone (dup) returns, the one after it the
\* reading end of the awakener's pipe.
Fds == 1..NFds
DupFd == NFds + 1
AwFd == NFds + 2
FdSpace == 1..(NFds + 2)
Files == Fds \cup {AwFd}
Tokens == 0..MaxToken
Selectors == 1..NSelectors

\* ------------------------------------------------------- flags (event.rs)
\* Interest and PollOpt are bit sets; a value is modelled as the set of the
\* flags whose bit is set.
readable == "readable"
writable == "writable"
error == "error"
hup == "hup"
hinted == "hinted"
edge == "edge"
level == "level"
oneshot == "oneshot"

is_readable(i) == readable \in i
is_writable(i) == writable \in i
is_hup(i) == hup \in i
is_edge(o) == edge \in o
is_level(o) == level \in o
is_oneshot(o) == oneshot \in o

\* The interests and options callers pass in this model: every choice for
\* socket 1; the other sockets are registered readable and level-triggered
\* under the last token (they are there to compete for the slots of a batch).
InterestArgs == SUBSET {readable, writable}
OptArgs == {{edge}, {level}, {edge, oneshot}, {level, oneshot}}
RegArgs(fd) ==
  IF fd = 1
  THEN {[token |-> t, interest |-> i, opts |-> o] : t \in Tokens, i \in InterestArgs, o \in OptArgs}
  ELSE {[token |-> MaxToken, interest |-> {readable}, opts |-> {level}]}

\* ------------------------------------------------------- epoll event bits
EPOLLIN == "EPOLLIN"
EPOLLOUT == "EPOLLOUT"
EPOLLERR == "EPOLLERR"
EPOLLHUP == "EPOLLHUP"
EPOLLRDHUP == "EPOLLRDHUP"
EPOLLET == "EPOLLET"
EPOLLONESHOT == "EPOLLONESHOT"

\* The bits of a mask that are not events (the kernel's EP_PRIVATE_BITS).
EpPrivateBits == {EPOLLET, EPOLLONESHOT}
\* The conditions that come and go on a socket of the model: socket 1 is
\* read and written, the others only receive.
SockBits(fd) == IF fd = 1 THEN {EPOLLIN, EPOLLOUT} ELSE {EPOLLIN}

VARIABLES
  scene,     \* the kind of source this run has: "sockets", "custom", "multi",
             \* "pipe" or "iocp"
  ep,        \* ep[s][fd]: the entry of fd in the interest list of selector s
  rdy,       \* rdy[s]: the ready list of selector s, oldest first
  fdst,      \* fdst[f]: the conditions currently true of the open file f
  dupof,     \* the socket DupFd is a duplicate of, 0 while DupFd is not open
  evts,      \* the Events batch of the Poll that owns selector 1 (slots 1..len)
  sig,       \* history: how the wait of the last select ended ("none" where
             \* the run does not tell)
  sel,       \* the select another thread is inside of, step by step
  io,        \* the last non-blocking I/O call: its inputs and what it returned
  wl,        \* an IOCP listener: its accept half, the kernel's side and the caller's
  tw,        \* a connected pair of streams: the writer's halves, the bytes under way, the peer
  us,        \* an IOCP UDP socket: its socket, selector reference, halves and the kernel's side
  ret,       \* the call the last step made and what it returned
  want,      \* history: the registration the caller last made for fd on selector 1
  polled,    \* history: a poll has returned and nothing has changed since
  shots,     \* history: events delivered for a oneshot fd since its (re)register
  edges,     \* history: events delivered for an edge fd since it was last raised
  node,      \* the custom registration: its node and the shared readiness word
  cevts,     \* the events the last poll delivered for the custom registration
  cfresh,    \* history: the readiness published since the last poll that drained
  cseen,     \* history: cfresh as the last poll found it
  rg,        \* rg[i]: custom registration i: its two handles, its node, its word
  pq,        \* the selector's pending queue of custom registrations, oldest first
  pl,        \* the poll in progress on the pending queue
  cb,        \* the events the last poll of the pending queue delivered
  settled,   \* history: the last poll began after the last set_readiness, found
             \* every interest readable and came back empty
  pipe,      \* the number of bytes in the awakener's pipe
  wk,        \* the thread that wakes: its position in wakeup() / wake()
  cl,        \* the position of cleanup(): "idle" or in its "loop"
  cdone,     \* the number of cleanup() calls that have returned
  port,      \* the completion port: the packets posted and not yet dequeued
  ievts,     \* the events the last select on the completion port delivered
  nw,        \* history: wakes written or posted since an event answered them
  coal,      \* history: the wakes the last event of the waker answered
  owed       \* history: a wake has returned since an event last answered one

epollVars == <<ep, rdy, fdst, dupof, evts, sig, sel, wl, io, tw, us>>
histVars == <<want, shots, edges>>
queueVars == <<rg, pq, pl, cb, settled>>
customVars == <<node, cevts, cfresh, cseen, queueVars>>
wakerVars == <<pipe, wk, cl, cdone, port, ievts, nw, coal, owed>>
vars == <<scene, ep, rdy, fdst, dupof, evts, sig, sel, wl, io, tw, us, ret, want, polled, shots, edges,
          node, cevts, cfresh, cseen, rg, pq, pl, cb, settled, pipe, wk, cl, cdone, port, ievts, nw, coal, owed>>

\* The scenes whose sources are descriptors registered with epoll.
EpollScenes == {"sockets", "multi", "pipe", "opts", "intr", "conc", "again", "mask"}

\* What the OS (or the layer below) answers to a call: a count, or an error
\* with its kind.
OsKinds == {"WouldBlock", "Interrupted", "ConnectionReset", "ConnectionRefused", "BrokenPipe"}

OsOk(n) == [ok |-> TRUE, cnt |-> n, kind |-> "none"]

OsErr(k) == [ok |-> FALSE, cnt |-> 0, kind |-> k]

OsResults == {OsOk(n) : n \in 0..MaxCount} \cup {OsErr(k) : k \in OsKinds}

\* What a call returns. res: "Ready" / "WouldBlock" (Ok(NonBlock)), "Some" /
\* "None" (Ok(Option)), "Ok" (a plain Ok(usize)) or "Err"; cnt: the count in
\* the value, -1 where the value has none; adv: how far the caller's buffer
\* was advanced; kind: the kind of the error.
Returned(res, cnt, adv, kind) == [res |-> res, cnt |-> cnt, adv |-> adv, kind |-> kind]

\* The states of the read and write halves of a Windows stream.
States == {"Empty", "Pending", "Ready", "Error"}

NoIo == [op |-> "none", os |-> OsOk(0), st |-> "Empty", registered |-> FALSE,
         out |-> Returned("none", -1, 0, "none")]

\* A connected pair: the accepted stream s2 (write half, registration, handle)
\* and its peer s (read half), with the bytes between them. flight: bytes of
\* the overlapped write the kernel still holds; status: bytes_transferred of a
\* posted write completion, -1 without one; avail: bytes in the peer's socket.
\* made .. connects describe the stream itself: its handle, registration,
\* pending connect, halves, cached readiness, the operation on the read
\* overlapped (rop) and its posted completion (rdone, -1 without one), the
\* references to its record and how often the record was freed. inbox: bytes
\* that arrived from the peer. accepted, got, seen, failed, cut, sent and
\* connects are history.
NoStreams ==
  [made |-> FALSE, alive |-> FALSE, registered |-> FALSE, deferred |-> FALSE,
   conn |-> "none", write |-> "Empty", len |-> 0, pos |-> 0,
   writable |-> FALSE, read |-> "Empty", cur |-> 0, err |-> "none",
   readable |-> FALSE, hup |-> FALSE, cancelled |-> FALSE,
   rop |-> "none", rdone |-> -1, cok |-> FALSE, est |-> FALSE, early |-> FALSE,
   refs |-> 0, freed |-> 0, connects |-> 0,
   inbox |-> 0, sent |-> 0, pclosed |-> FALSE,
   flight |-> 0, status |-> -1, avail |-> 0,
   preg |-> FALSE, pread |-> "Empty", pcur |-> 0, preadable |-> FALSE,
   accepted |-> 0, got |-> 0, seen |-> FALSE, failed |-> FALSE, cut |-> "none"]

\* sys/windows/udp.rs, 35..60: the socket before its constructor. socket,
\* iocp, read and write are Inner's fields (len: the length of the datagram a
\* Ready holds; err: the error an Error holds); rdone and inbox are the
\* kernel's side; readable and writable the events handed to the selector
\* for the next poll; panicked: an unwrap of a selector that is not there.
NoUdp ==
  [made |-> FALSE, alive |-> FALSE, socket |-> "Empty", iocp |-> FALSE,
   registered |-> FALSE, read |-> "Empty", len |-> 0, err |-> "none",
   write |-> "Empty", readable |-> FALSE, writable |-> FALSE,
   rdone |-> -1, inbox |-> << >>, sent |-> 0, panicked |-> FALSE]

\* The pair of write_then_drop: s2 was accepted, is registered for writable
\* and has had its writable event.
AcceptedStreams ==
  [NoStreams EXCEPT !.made = TRUE, !.alive = TRUE, !.registered = TRUE, !.conn = "ok", !.est = TRUE,
                    !.writable = TRUE, !.refs = 1]

\* No listener yet: the accept half, the cached readable, the references to
\* the record, the accepts the kernel holds, the connections that wait, and
\* what the caller was handed.
NoListener ==
  [made |-> FALSE, alive |-> FALSE, registered |-> FALSE,
   accept |-> "Empty", readable |-> FALSE,
   refs |-> 0, freed |-> 0, nout |-> 0, adone |-> -1, aok |-> FALSE, cancelled |-> FALSE,
   backlog |-> 0, arrived |-> 0, parked |-> 0, taken |-> 0]

NoReg == [on |-> FALSE, events |-> {}, data |-> 0]
NoWant == [on |-> FALSE, token |-> 0, interest |-> {}, opts |-> {}, note |-> "never"]
NoCall == [op |-> "none", res |-> "none"]
\* No select in progress. buf: the slots epoll_wait filled; at: history, the
\* registrations their sources had when it filled them.
NoSelect == [pc |-> "idle", buf |-> << >>, at |-> [fd \in FdSpace |-> NoWant]]
NoNode == [on |-> FALSE, token |-> 0, interest |-> {}, opts |-> {},
           readiness |-> {}, queued |-> FALSE]
\* No wake in progress. wrote: the wake's byte went into the pipe; ahead: the
\* bytes in front of it; at / back: the cleanups that had returned when the
\* wake was called / returned; by: the cleanup that read the byte (0: none).
\* A custom registration as Registration::new leaves it: both handles alive,
\* not registered, the word empty. phase, fin, last and wait are history:
\* where the registration stands in "set before register" (new, early, armed,
\* fired, twice, other), whether its last set_readiness has returned, the
\* readiness of the last event observed for it (empty: none yet), the polls
\* it has waited.
NewReg == [src |-> TRUE, set |-> TRUE, bound |-> FALSE, token |-> 0, interest |-> {},
           readiness |-> {}, phase |-> "new", fin |-> FALSE, last |-> {}, wait |-> 0]
\* No poll in progress. gone: the registrations dropped when the poll began;
\* late: it began with every last set_readiness back and all interests readable.
NoPoll == [pc |-> "idle", out |-> << >>, gone |-> {}, late |-> FALSE]
NoWake == [pc |-> "idle", wrote |-> FALSE, ahead |-> 0, at |-> 0, by |-> 0, back |-> 0]

\* The open file a descriptor refers to (0: the descriptor is not open).
SockOf(fd) == IF fd = DupFd THEN dupof ELSE fd

\* What poll(2) on the descriptor's file reports now.
PollState(fd) == IF SockOf(fd) = 0 THEN {} ELSE fdst[SockOf(fd)]

\* ------------------------------------------------------ epoll.rs, 69..97
\* Mutants of ioevent_to_epoll: oneshot dropped, edge dropped, level left
\* edge-triggered, edge kept beside level, no interest read as readable.
ioevent_to_epoll_NoOneshot(interest, opts) ==
  (IF is_readable(interest) THEN {EPOLLIN} ELSE {})
    \cup (IF is_writable(interest) THEN {EPOLLOUT} ELSE {})
    \cup (IF is_hup(interest) THEN {EPOLLRDHUP} ELSE {})
    \cup (IF is_edge(opts) /\ ~is_level(opts) THEN {EPOLLET} ELSE {})

ioevent_to_epoll_NoEdge(interest, opts) ==
  (IF is_readable(interest) THEN {EPOLLIN} ELSE {})
    \cup (IF is_writable(interest) THEN {EPOLLOUT} ELSE {})
    \cup (IF is_hup(interest) THEN {EPOLLRDHUP} ELSE {})
    \cup (IF is_oneshot(opts) THEN {EPOLLONESHOT} ELSE {})

ioevent_to_epoll_LevelAsEdge(interest, opts) ==
  (IF is_readable(interest) THEN {EPOLLIN} ELSE {})
    \cup (IF is_writable(interest) THEN {EPOLLOUT} ELSE {})
    \cup (IF is_hup(interest) THEN {EPOLLRDHUP} ELSE {})
    \cup {EPOLLET}
    \cup (IF is_oneshot(opts) THEN {EPOLLONESHOT} ELSE {})

ioevent_to_epoll_EdgeWins(interest, opts) ==
  (IF is_readable(interest) THEN {EPOLLIN} ELSE {})
    \cup (IF is_writable(interest) THEN {EPOLLOUT} ELSE {})
    \cup (IF is_hup(interest) THEN {EPOLLRDHUP} ELSE {})
    \cup (IF is_edge(opts) THEN {EPOLLET} ELSE {})
    \cup (IF is_oneshot(opts) THEN {EPOLLONESHOT} ELSE {})

ioevent_to_epoll_EmptyAsIn(interest, opts) ==
  (IF is_readable(interest) \/ interest = {} THEN {EPOLLIN} ELSE {})
    \cup (IF is_writable(interest) THEN {EPOLLOUT} ELSE {})
    \cup (IF is_hup(interest) THEN {EPOLLRDHUP} ELSE {})
    \cup (IF is_edge(opts) /\ ~is_level(opts) THEN {EPOLLET} ELSE {})
    \cup (IF is_oneshot(opts) THEN {EPOLLONESHOT} ELSE {})

\* Mutant: the remote hangup is subscribed to whatever the interests.
ioevent_to_epoll_HupAlways(interest, opts) ==
  LET k1 == IF is_readable(interest) THEN {EPOLLIN} ELSE {}
      k2 == k1 \cup (IF is_writable(interest) THEN {EPOLLOUT} ELSE {})
      k3 == k2 \cup {EPOLLRDHUP}
      k4 == k3 \cup (IF is_edge(opts) THEN {EPOLLET} ELSE {})
      k5 == k4 \cup (IF is_oneshot(opts) THEN {EPOLLONESHOT} ELSE {})
  IN IF is_level(opts) THEN k5 \ {EPOLLET} ELSE k5

ioevent_to_epoll(interest, opts) ==
  LET k1 == IF is_readable(interest) THEN {EPOLLIN} ELSE {}
      k2 == k1 \cup (IF is_writable(interest) THEN {EPOLLOUT} ELSE {})
      k3 == k2 \cup (IF is_hup(interest) THEN {EPOLLRDHUP} ELSE {})
      k4 == k3 \cup (IF is_edge(opts) THEN {EPOLLET} ELSE {})
      k5 == k4 \cup (IF is_oneshot(opts) THEN {EPOLLONESHOT} ELSE {})
  IN IF is_level(opts) THEN k5 \ {EPOLLET} ELSE k5

\* Mutant: the remote hangup is left out of the readiness.
EventsGet_NoRdhup(slot) ==
  LET epoll == slot.events
      k0 == {hinted}
      k1 == k0 \cup (IF EPOLLIN \in epoll THEN {readable} ELSE {})
      k2 == k1 \cup (IF EPOLLOUT \in epoll THEN {writable} ELSE {})
      k3 == k2 \cup (IF EPOLLERR \in epoll THEN {error} ELSE {})
      k4 == k3 \cup (IF EPOLLHUP \in epoll THEN {hup} ELSE {})
  IN [kind |-> k4, token |-> slot.data]

\* ---------------------------------------------------- epoll.rs, 124..152
\* Events::get on a slot: the readiness and the token of the IoEvent.
EventsGet(slot) ==
  LET epoll == slot.events
      k0 == {hinted}
      k1 == k0 \cup (IF EPOLLIN \in epoll THEN {readable} ELSE {})
      k2 == k1 \cup (IF EPOLLOUT \in epoll THEN {writable} ELSE {})
      k3 == k2 \cup (IF EPOLLERR \in epoll THEN {error} ELSE {})
      k4 == k3 \cup (IF (EPOLLRDHUP \in epoll) \/ (EPOLLHUP \in epoll) THEN {hup} ELSE {})
  IN [kind |-> k4, token |-> slot.data]

\* ------------------------------------------------------ poll.rs, 103..116
\* What the accessors of an IoEvent of the given kind answer.
IoEventIsReadable(kind) == readable \in kind \/ hup \in kind

IoEventIsWritable(kind) == writable \in kind

IoEventIsError(kind) == error \in kind

\* --------------------------------------------------------- the kernel side
\* The events of an entry that the file reports now.
Revents(r, fd) == PollState(fd) \cap (r.events \ EpPrivateBits)

InList(list, fd) == \E i \in 1..Len(list) : list[i] = fd

Enqueue(list, fd) == IF InList(list, fd) THEN list ELSE Append(list, fd)

Remove(list, fd) == SelectSeq(list, LAMBDA x : x # fd)

\* epoll_ctl(EPOLL_CTL_ADD): EEXIST for an fd already in the interest list.
EpollCtlAdd(s, fd, info) ==
  IF ep[s][fd].on
  THEN [res |-> "EEXIST", ep |-> ep[s], rdy |-> rdy[s]]
  ELSE LET r == [on |-> TRUE, events |-> info.events \cup {EPOLLERR, EPOLLHUP},
                 data |-> info.data]
       IN [res |-> "ok",
           ep |-> [ep[s] EXCEPT ![fd] = r],
           rdy |-> IF Revents(r, fd) # {} THEN Enqueue(rdy[s], fd) ELSE rdy[s]]

\* epoll_ctl(EPOLL_CTL_MOD): ENOENT for an fd not in the interest list.
EpollCtlMod(s, fd, info) ==
  IF ~ep[s][fd].on
  THEN [res |-> "ENOENT", ep |-> ep[s], rdy |-> rdy[s]]
  ELSE LET r == [on |-> TRUE, events |-> info.events \cup {EPOLLERR, EPOLLHUP},
                 data |-> info.data]
       IN [res |-> "ok",
           ep |-> [ep[s] EXCEPT ![fd] = r],
           rdy |-> IF Revents(r, fd) # {} THEN Enqueue(rdy[s], fd) ELSE rdy[s]]

\* epoll_ctl(EPOLL_CTL_DEL): ENOENT for an fd not in the interest list.
EpollCtlDel(s, fd) ==
  IF ~ep[s][fd].on
  THEN [res |-> "ENOENT", ep |-> ep[s], rdy |-> rdy[s]]
  ELSE [res |-> "ok",
        ep |-> [ep[s] EXCEPT ![fd] = NoReg],
        rdy |-> Remove(rdy[s], fd)]

\* The wake-up callback of a file on which the conditions `key` were raised:
\* an armed entry that asks for one of them goes on the ready list.
Callback(regs, list, fd, key) ==
  IF regs[fd].on /\ (regs[fd].events \ EpPrivateBits) # {} /\ (key \cap regs[fd].events) # {}
  THEN Enqueue(list, fd)
  ELSE list

\* The callback runs for every descriptor of the file that is in the list.
CallbackAll(regs, list, f, key) ==
  LET l1 == Callback(regs, list, f, key)
  IN IF dupof = f THEN Callback(regs, l1, DupFd, key) ELSE l1

\* epoll_wait: entries are taken from the head of the ready list and polled
\* again; one that reports nothing is dropped, one that reports is copied out;
\* a oneshot entry is then disarmed, a level entry goes back to the tail.
RECURSIVE EpWaitLoop(_, _, _, _, _)
EpWaitLoop(list, regs, out, back, max) ==
  IF list = << >> \/ Len(out) >= max
  THEN [evs |-> out, regs |-> regs, rdy |-> list \o back]
  ELSE LET fd == Head(list)
           r == regs[fd]
           revents == Revents(r, fd)
       IN IF revents = {}
          THEN EpWaitLoop(Tail(list), regs, out, back, max)
          ELSE LET e == [events |-> revents, data |-> r.data, src |-> fd]
                   regs2 == IF EPOLLONESHOT \in r.events
                            THEN [regs EXCEPT ![fd].events = @ \cap EpPrivateBits]
                            ELSE regs
                   back2 == IF EPOLLONESHOT \notin r.events /\ EPOLLET \notin r.events
                            THEN Append(back, fd)
                            ELSE back
               IN EpWaitLoop(Tail(list), regs2, Append(out, e), back2, max)

EpollWait(s, max) == EpWaitLoop(rdy[s], ep[s], << >>, << >>, max)

\* The sources an event of the batch b belongs to.
Srcs(b) == {b[i].src : i \in 1..Len(b)}

\* The event bits the caller's registration of fd asks the kernel for.
Asked(fd) == ioevent_to_epoll(want[fd].interest, want[fd].opts) \cup {EPOLLERR, EPOLLHUP}

\* ----------------------------------------------------------------- Init
InitEpoll ==
  /\ ep = [s \in Selectors |-> [fd \in FdSpace |-> NoReg]]
  /\ rdy = [s \in Selectors |-> << >>]
  /\ fdst = [f \in Files |-> {}]
  /\ dupof = 0
  /\ evts = << >>
  /\ sig = "none"
  /\ sel = NoSelect
  /\ io = NoIo
  /\ wl = NoListener
  /\ tw = IF scene = "wtd" THEN AcceptedStreams ELSE NoStreams
  /\ us = NoUdp
  /\ ret = NoCall
  /\ want = [fd \in FdSpace |-> NoWant]
  /\ polled = FALSE
  /\ shots = [fd \in FdSpace |-> 0]
  /\ edges = [fd \in FdSpace |-> 0]

InitCustom ==
  /\ node = NoNode
  /\ cevts = << >>
  /\ cfresh = {}
  /\ cseen = {}
  /\ rg = [i \in 1..NRegs |-> NewReg]
  /\ pq = << >>
  /\ pl = NoPoll
  /\ cb = << >>
  /\ settled = FALSE

InitWaker ==
  /\ pipe = 0
  /\ wk = NoWake
  /\ cl = "idle"
  /\ cdone = 0
  /\ port = << >>
  /\ ievts = << >>
  /\ nw = 0
  /\ coal = 0
  /\ owed = FALSE

Init ==
  /\ scene \in {"sockets", "custom"}
  /\ InitEpoll
  /\ InitCustom
  /\ InitWaker

\* What a call on selector s leaves behind: the kernel's answer k, the call op
\* its result, and, for the Poll that owns selector 1, the caller's view
\* w of the registration it now has. A run with two selectors keeps the
\* selector and the handle with the result.
Applied(s, fd, op, k, w) ==
  /\ scene \in EpollScenes
  /\ ep' = [ep EXCEPT ![s] = k.ep]
  /\ rdy' = [rdy EXCEPT ![s] = k.rdy]
  /\ ret' = IF scene = "multi"
            THEN [op |-> op, res |-> k.res, through |-> s, fd |-> fd]
            ELSE [op |-> op, res |-> k.res]
  /\ polled' = FALSE
  /\ IF k.res = "ok" /\ s = 1
     THEN /\ want' = [want EXCEPT ![fd] = w]
          /\ shots' = [shots EXCEPT ![fd] = 0]
          /\ edges' = [edges EXCEPT ![fd] = 0]
     ELSE UNCHANGED histVars
  /\ UNCHANGED <<scene, fdst, dupof, evts, sig, sel, wl, io, tw, us, customVars, wakerVars>>

\* ------------------------------------------------- epoll.rs, 33..41
\* Mutant: a register that finds the fd registered falls back to a modify.
Register_Replaces(s, fd, token, interest, opts) ==
  LET info == [events |-> ioevent_to_epoll(interest, opts), data |-> token]
      a == EpollCtlAdd(s, fd, info)
      k == IF a.res = "EEXIST" THEN EpollCtlMod(s, fd, info) ELSE a
  IN Applied(s, fd, "register", k,
             [on |-> TRUE, token |-> token, interest |-> interest, opts |-> opts,
              note |-> "made"])

Register(s, fd, token, interest, opts) ==
  LET info == [events |-> ioevent_to_epoll(interest, opts), data |-> token]
      k == EpollCtlAdd(s, fd, info)
  IN Applied(s, fd, "register", k,
             [on |-> TRUE, token |-> token, interest |-> interest, opts |-> opts,
              note |-> "made"])

\* ------------------------------------------------- epoll.rs, 44..52
\* Mutant: a modify of an fd the selector does not hold is answered ok.
Reregister_Unchecked(s, fd, token, interest, opts) ==
  LET info == [events |-> ioevent_to_epoll(interest, opts), data |-> token]
      m == EpollCtlMod(s, fd, info)
      k == IF m.res = "ENOENT" THEN [m EXCEPT !.res = "ok"] ELSE m
  IN Applied(s, fd, "reregister", k,
             [on |-> TRUE, token |-> token, interest |-> interest, opts |-> opts,
              note |-> IF token # want[fd].token THEN "moved" ELSE want[fd].note])

\* Mutant: the modify leaves the old event mask in the entry.
Reregister_StaleInterest(s, fd, token, interest, opts) ==
  LET info == [events |-> ep[s][fd].events, data |-> token]
      k == EpollCtlMod(s, fd, info)
  IN Applied(s, fd, "reregister", k,
             [on |-> TRUE, token |-> token, interest |-> interest, opts |-> opts,
              note |-> IF token # want[fd].token THEN "moved" ELSE want[fd].note])

\* Mutant: the modify leaves the old token in the entry's data.
Reregister_StaleToken(s, fd, token, interest, opts) ==
  LET info == [events |-> ioevent_to_epoll(interest, opts), data |-> ep[s][fd].data]
      k == EpollCtlMod(s, fd, info)
  IN Applied(s, fd, "reregister", k,
             [on |-> TRUE, token |-> token, interest |-> interest, opts |-> opts,
              note |-> IF token # want[fd].token THEN "moved" ELSE want[fd].note])

Reregister(s, fd, token, interest, opts) ==
  LET info == [events |-> ioevent_to_epoll(interest, opts), data |-> token]
      k == EpollCtlMod(s, fd, info)
  IN Applied(s, fd, "reregister", k,
             [on |-> TRUE, token |-> token, interest |-> interest, opts |-> opts,
              note |-> IF token # want[fd].token THEN "moved" ELSE want[fd].note])

\* ------------------------------------------------- epoll.rs, 55..66
\* Mutant: the entry is not deleted from the interest list.
Deregister_NoDel(s, fd) ==
  LET d == EpollCtlDel(s, fd)
      k == [res |-> d.res, ep |-> ep[s], rdy |-> rdy[s]]
  IN Applied(s, fd, "deregister", k, [NoWant EXCEPT !.note = "gone"])

Deregister(s, fd) ==
  LET k == EpollCtlDel(s, fd)
  IN Applied(s, fd, "deregister", k, [NoWant EXCEPT !.note = "gone"])

\* One more, up to 2: the history counters only tell 0, 1 and "more".
Bump(n) == IF n < 2 THEN n + 1 ELSE 2

\* ------------------------------------------------- epoll.rs, 20..30
\* Mutant: the interrupted wait is returned as an error.
Select_EintrIsError ==
  LET w == EpollWait(1, EventsCap)
      told == scene = "intr"
  IN /\ scene \in {"sockets", "pipe", "opts", "intr", "again"}
     /\ \/ /\ \/ /\ sig' = IF ~told THEN "none"                \* Ok(c) => c
                           ELSE IF Len(w.evs) = 0 THEN "empty"
                           ELSE IF sig \in {"EINTR", "failed"} THEN "resumed"
                           ELSE "events"
                 /\ ret' = [op |-> "select", res |-> "ok"]
              \/ /\ Len(w.evs) = 0                             \* Err(EINTR) => 0
                 /\ sig' = IF told THEN "EINTR" ELSE "none"
                 /\ ret' = [op |-> "select", res |-> "EINTR"]
           /\ evts' = w.evs
           /\ ep' = [ep EXCEPT ![1] = w.regs]
           /\ rdy' = [rdy EXCEPT ![1] = w.rdy]
           /\ polled' = TRUE
           /\ shots' = [fd \in FdSpace |->
                          IF fd \in Srcs(w.evs) /\ is_oneshot(want[fd].opts)
                          THEN Bump(shots[fd]) ELSE shots[fd]]
           /\ edges' = [fd \in FdSpace |->
                          IF fd \in Srcs(w.evs) /\ is_edge(want[fd].opts)
                             /\ ~is_level(want[fd].opts)
                          THEN Bump(edges[fd]) ELSE edges[fd]]
           /\ nw' = IF AwFd \in Srcs(w.evs) THEN 0 ELSE nw
           /\ coal' = IF AwFd \in Srcs(w.evs) THEN nw ELSE coal
           /\ owed' = (owed /\ AwFd \notin Srcs(w.evs))
           /\ UNCHANGED <<scene, fdst, dupof, sel, wl, io, tw, us, want, customVars,
                          pipe, wk, cl, cdone, port, ievts>>
        \/ /\ told                                 \* Err(err) => return Err(..)
           /\ sig' = "failed"
           /\ ret' = [op |-> "select", res |-> "EBADF"]
           /\ polled' = FALSE
           /\ UNCHANGED <<scene, ep, rdy, fdst, dupof, evts, sel, wl, io, tw, us, histVars, customVars, wakerVars>>

\* select on selector 1: epoll_wait fills the slots and returns the count
\* (Ok(c) => c), or is interrupted before anything could be copied out
\* (EINTR => 0), and evts.len = cnt either way; any other failure of the wait
\* is returned at once. Only a run of the "intr" kind tells the three apart.
Select ==
  LET w == EpollWait(1, EventsCap)
      told == scene = "intr"
  IN /\ scene \in {"sockets", "pipe", "opts", "intr", "again"}
     /\ \/ /\ \/ /\ sig' = IF ~told THEN "none"                \* Ok(c) => c
                           ELSE IF Len(w.evs) = 0 THEN "empty"
                           ELSE IF sig \in {"EINTR", "failed"} THEN "resumed"
                           ELSE "events"
                 /\ ret' = [op |-> "select", res |-> "ok"]
              \/ /\ Len(w.evs) = 0                             \* Err(EINTR) => 0
                 /\ sig' = IF told THEN "EINTR" ELSE "none"
                 /\ ret' = [op |-> "select", res |-> "ok"]
           /\ evts' = w.evs
           /\ ep' = [ep EXCEPT ![1] = w.regs]
           /\ rdy' = [rdy EXCEPT ![1] = w.rdy]
           /\ polled' = TRUE
           /\ shots' = [fd \in FdSpace |->
                          IF fd \in Srcs(w.evs) /\ is_oneshot(want[fd].opts)
                          THEN Bump(shots[fd]) ELSE shots[fd]]
           /\ edges' = [fd \in FdSpace |->
                          IF fd \in Srcs(w.evs) /\ is_edge(want[fd].opts)
                             /\ ~is_level(want[fd].opts)
                          THEN Bump(edges[fd]) ELSE edges[fd]]
           /\ nw' = IF AwFd \in Srcs(w.evs) THEN 0 ELSE nw
           /\ coal' = IF AwFd \in Srcs(w.evs) THEN nw ELSE coal
           /\ owed' = (owed /\ AwFd \notin Srcs(w.evs))
           /\ UNCHANGED <<scene, fdst, dupof, sel, wl, io, tw, us, want, customVars,
                          pipe, wk, cl, cdone, port, ievts>>
        \/ /\ told                                 \* Err(err) => return Err(..)
           /\ sig' = "failed"
           /\ ret' = [op |-> "select", res |-> "EBADF"]
           /\ polled' = FALSE
           /\ UNCHANGED <<scene, ep, rdy, fdst, dupof, evts, sel, wl, io, tw, us, histVars, customVars, wakerVars>>

\* ------------------------------------ epoll.rs, 20..30, step by step
\* Selector::select as another thread sees it: the call, epoll_wait (one
\* step: the kernel copies the events out under the lock epoll_ctl takes),
\* and evts.len = cnt with the return. register, reregister and deregister
\* may run between the steps.
SelectBegin ==
  /\ scene = "conc"
  /\ sel.pc = "idle"
  /\ sel' = [sel EXCEPT !.pc = "called"]
  /\ ret' = NoCall
  /\ polled' = FALSE
  /\ UNCHANGED <<scene, ep, rdy, fdst, dupof, evts, sig, wl, io, tw, us, histVars, customVars, wakerVars>>

SelectWait ==
  LET w == EpollWait(1, EventsCap)
  IN /\ scene = "conc"
     /\ sel.pc = "called"
     /\ sel' = [pc |-> "waited", buf |-> w.evs,
                at |-> [fd \in FdSpace |-> IF fd \in Srcs(w.evs) THEN want[fd] ELSE NoWant]]
     /\ ep' = [ep EXCEPT ![1] = w.regs]
     /\ rdy' = [rdy EXCEPT ![1] = w.rdy]
     /\ ret' = NoCall
     /\ polled' = FALSE
     /\ UNCHANGED <<scene, fdst, dupof, evts, sig, wl, io, tw, us, histVars, customVars, wakerVars>>

\* Mutant: the length is left alone when nothing was copied out.
SelectEnd_KeepsLen ==
  /\ scene = "conc"
  /\ sel.pc = "waited"
  /\ evts' = IF Len(sel.buf) = 0 THEN evts ELSE sel.buf
  /\ sel' = [sel EXCEPT !.pc = "idle"]
  /\ ret' = [op |-> "select", res |-> "ok"]
  /\ polled' = TRUE
  /\ UNCHANGED <<scene, ep, rdy, fdst, dupof, sig, wl, io, tw, us, histVars, customVars, wakerVars>>

SelectEnd ==
  /\ scene = "conc"
  /\ sel.pc = "waited"
  /\ evts' = sel.buf
  /\ sel' = [sel EXCEPT !.pc = "idle"]
  /\ ret' = [op |-> "select", res |-> "ok"]
  /\ polled' = TRUE
  /\ UNCHANGED <<scene, ep, rdy, fdst, dupof, sig, wl, io, tw, us, histVars, customVars, wakerVars>>

\* ------------------------------------------------------ the environment
\* The edge history of the descriptors of file f starts over when a condition
\* their registration asks for is raised.
Raised(f, bit) ==
  [fd \in FdSpace |-> IF SockOf(fd) = f /\ want[fd].on /\ bit \in Asked(fd)
                       THEN 0 ELSE edges[fd]]

\* A condition becomes true of a socket (data arrives, the send buffer gets
\* room, the peer hangs up): the file's wake-up callback runs.
Rise(f, bit) ==
  /\ scene \in EpollScenes
  /\ bit \notin fdst[f]
  /\ fdst' = [fdst EXCEPT ![f] = @ \cup {bit}]
  /\ rdy' = [s \in Selectors |-> CallbackAll(ep[s], rdy[s], f, {bit})]
  /\ ret' = NoCall
  /\ polled' = FALSE
  /\ edges' = Raised(f, bit)
  /\ UNCHANGED <<scene, ep, dupof, evts, sig, sel, wl, io, tw, us, want, shots, customVars, wakerVars>>

\* The condition is raised again while it is still true (more data arrives
\* on a socket that was not drained).
Again(f, bit) ==
  /\ scene \in EpollScenes
  /\ bit \in fdst[f]
  /\ rdy' = [s \in Selectors |-> CallbackAll(ep[s], rdy[s], f, {bit})]
  /\ ret' = NoCall
  /\ polled' = FALSE
  /\ edges' = Raised(f, bit)
  /\ UNCHANGED <<scene, ep, fdst, dupof, evts, sig, sel, wl, io, tw, us, want, shots, customVars, wakerVars>>

\* The caller reads (writes) the socket until it would block.
Drain(f, bit) ==
  /\ scene \in EpollScenes
  /\ bit \in fdst[f]
  /\ fdst' = [fdst EXCEPT ![f] = @ \ {bit}]
  /\ ret' = NoCall
  /\ polled' = FALSE
  /\ UNCHANGED <<scene, ep, rdy, dupof, evts, sig, sel, wl, io, tw, us, want, shots, edges, customVars, wakerVars>>

\* ------------------------------------------- the custom registration
\* Registration / SetReadiness as section 4.4 of the specification has them;
\* the arguments follow test/test_custom_evented.rs (edge).
CustomArgs ==
  {[token |-> t, interest |-> i, opts |-> {edge}] : t \in Tokens, i \in {{readable}, {writable}}}

\* Registration::register: the node records token, interests and opts; a
\* node whose word already has bits goes on the pending queue.
RegistrationRegister(token, interest, opts) ==
  /\ scene = "custom"
  /\ IF node.on
     THEN /\ ret' = [op |-> "register", res |-> "EEXIST"]
          /\ UNCHANGED node
     ELSE /\ ret' = [op |-> "register", res |-> "ok"]
          /\ node' = [node EXCEPT !.on = TRUE, !.token = token, !.interest = interest,
                                  !.opts = opts, !.queued = (node.readiness # {})]
  /\ polled' = FALSE
  /\ UNCHANGED <<scene, epollVars, histVars, cevts, cfresh, cseen, queueVars, wakerVars>>

\* SetReadiness::set_readiness: OR the bits into the word; a bound node whose
\* word goes from quiescent to "has bits" is pushed on the pending queue.
set_readiness(new) ==
  /\ scene = "custom"
  /\ node' = [node EXCEPT !.readiness = @ \cup new,
                          !.queued = @ \/ (node.on /\ node.readiness = {} /\ new # {})]
  /\ cfresh' = cfresh \cup new
  /\ ret' = [op |-> "set_readiness", res |-> "ok"]
  /\ polled' = FALSE
  /\ UNCHANGED <<scene, epollVars, histVars, cevts, cseen, queueVars, wakerVars>>

\* poll-drain: a queued node has its bits read and cleared and compared with
\* its interests; a non-empty intersection makes one event.
PollDrain ==
  /\ scene = "custom"
  /\ IF node.queued
     THEN LET bits == node.readiness \cap node.interest
          IN /\ node' = [node EXCEPT !.readiness = {}, !.queued = FALSE]
             /\ cevts' = IF bits # {}
                         THEN << [token |-> node.token, kind |-> bits] >>
                         ELSE << >>
     ELSE /\ cevts' = << >>
          /\ UNCHANGED node
  /\ cseen' = cfresh
  /\ cfresh' = IF node.on THEN {} ELSE cfresh
  /\ ret' = [op |-> "select", res |-> "ok"]
  /\ polled' = TRUE
  /\ UNCHANGED <<scene, epollVars, histVars, queueVars, wakerVars>>

\* ------------------- several custom registrations and their pending queue
\* Section 4.4 of the specification with the handles of section 3: any
\* thread publishes readiness, one thread polls, and the poll walks the
\* pending queue one node at a time; the arguments follow
\* test/test_custom_evented.rs (readable or writable, edge).
Regs == 1..NRegs

\* The runs that have custom registrations on a pending queue.
QueueScenes == {"early", "stress", "small", "drop"}

\* The events of the batch b that belong to registration i.
Of(b, i) == {k \in 1..Len(b) : b[k].src = i}

\* Mutant: register does not look at the word.
RegistryRegister_NoPush(i, token, interest, opts) ==
  /\ scene \in QueueScenes
  /\ rg[i].src
  /\ IF rg[i].bound
     THEN /\ ret' = [op |-> "register", res |-> "EEXIST"]
          /\ UNCHANGED rg
     ELSE /\ ret' = [op |-> "register", res |-> "ok"]
          /\ rg' = [rg EXCEPT ![i].bound = TRUE, ![i].token = token,
                              ![i].interest = interest,
                              ![i].phase = IF rg[i].phase = "early" /\ interest = {readable}
                                           THEN "armed" ELSE "other"]
  /\ polled' = FALSE
  /\ settled' = FALSE
  /\ UNCHANGED <<scene, epollVars, histVars, node, cevts, cfresh, cseen, pq, pl, cb, wakerVars>>

\* Registry::register: the selector records token and interests in the node;
\* a node whose word already has bits goes on the pending queue. A source
\* handle registers once.
RegistryRegister(i, token, interest, opts) ==
  /\ scene \in QueueScenes
  /\ rg[i].src
  /\ IF rg[i].bound
     THEN /\ ret' = [op |-> "register", res |-> "EEXIST"]
          /\ UNCHANGED <<rg, pq>>
     ELSE /\ ret' = [op |-> "register", res |-> "ok"]
          /\ rg' = [rg EXCEPT ![i].bound = TRUE, ![i].token = token,
                              ![i].interest = interest,
                              ![i].phase = IF rg[i].phase = "early" /\ interest = {readable}
                                           THEN "armed" ELSE "other"]
          /\ pq' = IF rg[i].readiness # {} THEN Enqueue(pq, i) ELSE pq
  /\ polled' = FALSE
  /\ settled' = FALSE
  /\ UNCHANGED <<scene, epollVars, histVars, node, cevts, cfresh, cseen, pl, cb, wakerVars>>

\* Registry::reregister: the selector records the new interests in the node.
RegistryReregister(i, token, interest, opts) ==
  /\ scene \in QueueScenes
  /\ rg[i].src
  /\ IF ~rg[i].bound
     THEN /\ ret' = [op |-> "reregister", res |-> "ENOENT"]
          /\ UNCHANGED <<rg, pq>>
     ELSE /\ ret' = [op |-> "reregister", res |-> "ok"]
          /\ rg' = [rg EXCEPT ![i].token = token, ![i].interest = interest,
                              ![i].phase = "other", ![i].wait = 0]
          /\ pq' = IF rg[i].readiness # {} THEN Enqueue(pq, i) ELSE pq
  /\ polled' = FALSE
  /\ settled' = FALSE
  /\ UNCHANGED <<scene, epollVars, histVars, node, cevts, cfresh, cseen, pl, cb, wakerVars>>

\* SetReadiness::set_readiness on any thread: OR the bits into the word; a
\* registered node whose word goes from empty to "has bits" is pushed on the
\* pending queue. final: no set_readiness on this registration follows.
SetReadiness(i, new, final) ==
  /\ scene \in QueueScenes
  /\ rg[i].set /\ ~rg[i].fin
  /\ final => new = {readable}
  /\ rg' = [rg EXCEPT ![i].readiness = @ \cup new,
                      ![i].fin = final,
                      ![i].phase = IF rg[i].phase \in {"new", "early"}
                                   THEN (IF readable \in (rg[i].readiness \cup new)
                                         THEN "early" ELSE "new")
                                   ELSE "other"]
  /\ pq' = IF rg[i].bound /\ rg[i].readiness = {} /\ new # {}
           THEN Enqueue(pq, i) ELSE pq
  /\ ret' = [op |-> "set_readiness", res |-> "ok"]
  /\ polled' = FALSE
  /\ UNCHANGED <<scene, epollVars, histVars, node, cevts, cfresh, cseen, pl, cb, settled,
                 wakerVars>>

\* Mutant: the drop of the source handle leaves the registration in place.
DropRegistration_StaysBound(i) ==
  /\ scene \in QueueScenes
  /\ rg[i].src
  /\ rg' = [rg EXCEPT ![i].src = FALSE, ![i].phase = "other"]
  /\ ret' = [op |-> "drop", res |-> "ok"]
  /\ polled' = FALSE
  /\ UNCHANGED <<scene, epollVars, histVars, node, cevts, cfresh, cseen, pq, pl, cb, settled,
                 wakerVars>>

\* drop(registration): the source handle goes and the registration with it;
\* a node that is on the pending queue stays there until a poll walks it.
DropRegistration(i) ==
  /\ scene \in QueueScenes
  /\ rg[i].src
  /\ rg' = [rg EXCEPT ![i].src = FALSE, ![i].bound = FALSE, ![i].phase = "other"]
  /\ ret' = [op |-> "drop", res |-> "ok"]
  /\ polled' = FALSE
  /\ UNCHANGED <<scene, epollVars, histVars, node, cevts, cfresh, cseen, pq, pl, cb, settled,
                 wakerVars>>

\* drop(set_readiness) of the last set_readiness handle: the word and the
\* registration stay.
DropSetReadiness(i) ==
  /\ scene \in QueueScenes
  /\ rg[i].set
  /\ rg' = [rg EXCEPT ![i].set = FALSE]
  /\ ret' = [op |-> "drop_set_readiness", res |-> "ok"]
  /\ polled' = FALSE
  /\ UNCHANGED <<scene, epollVars, histVars, node, cevts, cfresh, cseen, pq, pl, cb, settled,
                 wakerVars>>

\* Poll::poll, entry: the batch is empty.
PollBegin ==
  /\ scene \in QueueScenes
  /\ pl.pc = "idle"
  /\ pl' = [pc |-> "drain", out |-> << >>,
            gone |-> {i \in Regs : ~rg[i].src},
            late |-> \A i \in Regs : rg[i].bound /\ rg[i].fin /\ rg[i].interest = {readable}]
  /\ ret' = NoCall
  /\ polled' = FALSE
  /\ UNCHANGED <<scene, epollVars, histVars, node, cevts, cfresh, cseen, rg, pq, cb, settled,
                 wakerVars>>

\* The history of registration i when an event is made for it.
Fired(i) ==
  IF rg[i].phase = "armed" THEN "fired"
  ELSE IF rg[i].phase = "fired" THEN "twice"
  ELSE rg[i].phase

\* Mutant: the walk does not stop at a full batch.
PollNode_Unbounded ==
  /\ scene \in QueueScenes
  /\ pl.pc = "drain"
  /\ pq # << >>
  /\ LET i == Head(pq)
         bits == IF rg[i].bound THEN rg[i].readiness \cap rg[i].interest ELSE {}
     IN /\ pq' = Tail(pq)
        /\ IF bits # {}
           THEN /\ pl' = [pl EXCEPT !.out = Append(@, [token |-> rg[i].token, kind |-> bits,
                                                       src |-> i])]
                /\ rg' = [rg EXCEPT ![i].readiness = {}, ![i].phase = Fired(i)]
           ELSE /\ pl' = pl
                /\ rg' = [rg EXCEPT ![i].readiness = {}]
  /\ ret' = NoCall
  /\ polled' = FALSE
  /\ UNCHANGED <<scene, epollVars, histVars, node, cevts, cfresh, cseen, cb, settled, wakerVars>>

\* poll-drain, one node: the head of the pending queue has its bits read and
\* cleared and compared with its interests; a non-empty intersection makes
\* one event. The walk stops at a full batch.
PollNode ==
  /\ scene \in QueueScenes
  /\ pl.pc = "drain"
  /\ pq # << >>
  /\ Len(pl.out) < EventsCap
  /\ LET i == Head(pq)
         bits == IF rg[i].bound THEN rg[i].readiness \cap rg[i].interest ELSE {}
     IN /\ pq' = Tail(pq)
        /\ IF bits # {}
           THEN /\ pl' = [pl EXCEPT !.out = Append(@, [token |-> rg[i].token, kind |-> bits,
                                                       src |-> i])]
                /\ rg' = [rg EXCEPT ![i].readiness = {}, ![i].phase = Fired(i)]
           ELSE /\ pl' = pl
                /\ rg' = [rg EXCEPT ![i].readiness = {}]
  /\ ret' = NoCall
  /\ polled' = FALSE
  /\ UNCHANGED <<scene, epollVars, histVars, node, cevts, cfresh, cseen, cb, settled, wakerVars>>

\* A registration that is on the pending queue with readiness it asks for.
Pending(i) ==
  /\ InList(pq, i)
  /\ rg[i].bound
  /\ (rg[i].readiness \cap rg[i].interest) # {}

\* The readiness of the last event of the batch b for registration i.
LastKind(b, i) ==
  LET m == CHOOSE k \in Of(b, i) : \A j \in Of(b, i) : j <= k
  IN b[m].kind

\* Poll::poll, return: the queue is walked or the batch is full; the caller
\* gets the count n and the batch and notes the readiness of each event.
PollEnd ==
  /\ scene \in QueueScenes
  /\ pl.pc = "drain"
  /\ pq = << >> \/ Len(pl.out) >= EventsCap
  /\ cb' = pl.out
  /\ pl' = [pl EXCEPT !.pc = "idle"]
  /\ rg' = [i \in Regs |->
              IF Of(pl.out, i) # {}
              THEN [rg[i] EXCEPT !.last = LastKind(pl.out, i), !.wait = 0]
              ELSE IF Pending(i)
              THEN [rg[i] EXCEPT !.wait = IF @ <= NRegs THEN @ + 1 ELSE @]
              ELSE [rg[i] EXCEPT !.wait = 0]]
  /\ settled' = (pl.late /\ pl.out = << >>)
  /\ ret' = [op |-> "select", res |-> "ok", n |-> Len(pl.out)]
  /\ polled' = TRUE
  /\ UNCHANGED <<scene, epollVars, histVars, node, cevts, cfresh, cseen, pq, wakerVars>>

\* ------------------------------------------------ non-blocking I/O
\* Mutant: every error of the OS is taken for would-block.
read_slice_AllWouldBlock(os) ==
  IF os.ok
  THEN Returned("Ready", os.cnt, 0, "none")
  ELSE Returned("WouldBlock", -1, 0, "none")

\* io.rs, 124..137
read_slice(os) ==
  IF os.ok
  THEN Returned("Ready", os.cnt, 0, "none")
  ELSE IF os.kind = "WouldBlock"
       THEN Returned("WouldBlock", -1, 0, "none")
       ELSE Returned("Err", -1, 0, os.kind)

\* io.rs, 140..152
write_slice(os) ==
  IF os.ok
  THEN Returned("Ready", os.cnt, 0, "none")
  ELSE IF os.kind = "WouldBlock"
       THEN Returned("WouldBlock", -1, 0, "none")
       ELSE Returned("Err", -1, 0, os.kind)

\* Mutant: the cursor of the buffer is left where it was.
read_NoAdvance(os) == read_slice(os)

\* io.rs, 101..110: read_slice on the buffer's bytes, the cursor advanced by
\* the count of a Ready, the result of read_slice returned.
read(os) ==
  LET res == read_slice(os)
  IN [res EXCEPT !.adv = IF res.res = "Ready" THEN res.cnt ELSE 0]

\* io.rs, 114..122
write(os) ==
  LET res == write_slice(os)
  IN [res EXCEPT !.adv = IF res.res = "Ready" THEN res.cnt ELSE 0]

\* MapNonBlock::map_non_block: Ok(v) is Ok(Some(v)), would-block is Ok(None),
\* any other error stays.
map_non_block(os) ==
  IF os.ok
  THEN Returned("Some", os.cnt, 0, "none")
  ELSE IF os.kind = "WouldBlock"
       THEN Returned("None", -1, 0, "none")
       ELSE Returned("Err", -1, 0, os.kind)

\* sys/unix/udp.rs, 39..43 and 45..50
send_to(os) == map_non_block(os)

recv_from(os) == map_non_block(os)

\* sys/windows/udp.rs, 112..119: os is what _send_to returned.
WindowsSendTo(os) ==
  IF os.ok
  THEN Returned("Some", -1, os.cnt, "none")
  ELSE IF os.kind = "WouldBlock"
       THEN Returned("None", -1, 0, "none")
       ELSE Returned("Err", -1, 0, os.kind)

\* sys/windows/tcp.rs, 166..192: st is me.read, os what the cursor (Ready) or
\* the finished read (Error) holds.
TcpStreamRead(st, os) ==
  IF st \in {"Empty", "Pending"}
  THEN Returned("Err", -1, 0, "WouldBlock")
  ELSE IF st = "Ready"
       THEN (IF os.ok THEN Returned("Ok", os.cnt, 0, "none")
             ELSE Returned("Err", -1, 0, os.kind))
       ELSE Returned("Err", -1, 0, os.kind)

\* sys/windows/tcp.rs, 194..211: st is me.write, os what the copy into the
\* intermediate buffer returned.
TcpStreamWrite(st, registered, os) ==
  IF st # "Empty"
  THEN Returned("Err", -1, 0, "WouldBlock")
  ELSE IF ~registered
       THEN Returned("Err", -1, 0, "WouldBlock")
       ELSE IF os.ok THEN Returned("Ok", os.cnt, 0, "none")
            ELSE Returned("Err", -1, 0, os.kind)

\* The calls on an OS answer alone, and what they return.
Plain == {"read_slice", "write_slice", "read", "write", "send_to", "recv_from",
          "WindowsSendTo"}

PlainOut(op, os) ==
  IF op = "read_slice" THEN read_slice(os)
  ELSE IF op = "write_slice" THEN write_slice(os)
  ELSE IF op = "read" THEN read(os)
  ELSE IF op = "write" THEN write(os)
  ELSE IF op = "send_to" THEN send_to(os)
  ELSE IF op = "recv_from" THEN recv_from(os)
  ELSE WindowsSendTo(os)

\* One call on the OS answer os.
Call(op, os) ==
  /\ scene = "io"
  /\ io' = [op |-> op, os |-> os, st |-> "Empty", registered |-> FALSE,
            out |-> PlainOut(op, os)]
  /\ UNCHANGED <<scene, ep, rdy, fdst, dupof, evts, sig, sel, wl, tw, us, ret, polled, histVars,
                 customVars, wakerVars>>

\* One read on a Windows stream whose read half is in state st.
StreamRead(st, os) ==
  /\ scene = "io"
  /\ st = "Error" => ~os.ok
  /\ st = "Ready" => os.ok
  /\ io' = [op |-> "TcpStream::read", os |-> os, st |-> st, registered |-> TRUE,
            out |-> TcpStreamRead(st, os)]
  /\ UNCHANGED <<scene, ep, rdy, fdst, dupof, evts, sig, sel, wl, tw, us, ret, polled, histVars,
                 customVars, wakerVars>>

\* One write on a Windows stream whose write half is in state st.
StreamWrite(st, registered, os) ==
  /\ scene = "io"
  /\ io' = [op |-> "TcpStream::write", os |-> os, st |-> st, registered |-> registered,
            out |-> TcpStreamWrite(st, registered, os)]
  /\ UNCHANGED <<scene, ep, rdy, fdst, dupof, evts, sig, sel, wl, tw, us, ret, polled, histVars,
                 customVars, wakerVars>>

\* ------------------------------------------------ write, then drop
StreamScenes == {"wtd", "stream"}

\* A reference to the record of the stream t is given back; the record is
\* freed with the last one.
Release(t) ==
  [t EXCEPT !.refs = @ - 1, !.freed = IF t.refs <= 1 THEN @ + 1 ELSE @]

\* sys/windows/tcp.rs, 292..322: the stream t after schedule_write(buf, pos),
\* buf of len bytes; ok is whether write_overlapped took the request.
schedule_write(t, len, pos, ok) ==
  IF ok
  THEN [t EXCEPT !.write = "Pending", !.len = len, !.pos = pos, !.writable = FALSE,
                 !.flight = len - pos, !.status = -1, !.refs = @ + 1]
  ELSE [t EXCEPT !.write = "Error", !.len = 0, !.pos = 0, !.writable = TRUE,
                 !.flight = 0, !.status = -1, !.failed = TRUE]

\* sys/windows/tcp.rs, 194..211: s2.write(buf) with n bytes.
TcpWrite(n, ok) ==
  /\ scene \in StreamScenes
  /\ tw.alive
  /\ tw.accepted + n <= MaxBytes
  /\ ~tw.est => ~ok
  /\ LET out == TcpStreamWrite(tw.write, tw.registered, OsOk(n))
     IN /\ out.res = "Ok" \/ ok
        /\ tw' = IF out.res = "Ok"
                 THEN schedule_write([tw EXCEPT !.accepted = IF scene = "wtd" THEN @ + out.cnt ELSE @],
                                          out.cnt, 0, ok)
                 ELSE tw
        /\ io' = [op |-> "TcpStream::write", os |-> OsOk(n), st |-> tw.write,
                  registered |-> tw.registered, out |-> out]
  /\ UNCHANGED <<scene, ep, rdy, fdst, dupof, evts, sig, sel, wl, us, ret, polled, histVars,
                 customVars, wakerVars>>

\* The kernel sends k bytes of the overlapped write to the peer and posts the
\* completion.
KernelWrite(k) ==
  /\ scene \in StreamScenes
  /\ tw.write = "Pending"
  /\ tw.status = -1
  /\ k \in 1..tw.flight
  /\ tw' = [tw EXCEPT !.flight = @ - k, !.status = k,
                      !.avail = IF scene = "wtd" THEN @ + k ELSE @]
  /\ UNCHANGED <<scene, ep, rdy, fdst, dupof, evts, sig, sel, wl, us, io, ret, polled, histVars,
                 customVars, wakerVars>>

\* Mutant: a partial completion reports writable at once.
write_done_PartialWritable(ok) ==
  /\ scene \in StreamScenes
  /\ tw.write = "Pending"
  /\ tw.status >= 0
  /\ LET new_pos == tw.pos + tw.status
     IN IF new_pos = tw.len
        THEN /\ ok
             /\ tw' = Release([tw EXCEPT !.write = "Empty", !.len = 0, !.pos = 0,
                                         !.status = -1, !.writable = TRUE])
        ELSE tw' = Release([schedule_write(tw, tw.len, new_pos, ok) EXCEPT !.writable = TRUE])
  /\ UNCHANGED <<scene, ep, rdy, fdst, dupof, evts, sig, sel, wl, us, io, ret, polled, histVars,
                 customVars, wakerVars>>

\* sys/windows/tcp.rs, 374..390
write_done(ok) ==
  /\ scene \in StreamScenes
  /\ tw.write = "Pending"
  /\ tw.status >= 0
  /\ LET new_pos == tw.pos + tw.status
     IN IF new_pos = tw.len
        THEN /\ ok
             /\ tw' = Release([tw EXCEPT !.write = "Empty", !.len = 0, !.pos = 0,
                                         !.status = -1, !.writable = TRUE])
        ELSE tw' = Release(schedule_write(tw, tw.len, new_pos, ok))
  /\ UNCHANGED <<scene, ep, rdy, fdst, dupof, evts, sig, sel, wl, us, io, ret, polled, histVars,
                 customVars, wakerVars>>

\* What a drop or a deregister found: bytes accepted and not yet with the peer.
Cut(how) == IF tw.cut = "none" /\ tw.accepted > tw.got /\ ~tw.failed THEN how ELSE tw.cut

\* Mutant: the drop cancels the write in progress as well.
TcpDrop_CancelsWrite ==
  /\ scene \in StreamScenes
  /\ tw.alive
  /\ tw' = Release([tw EXCEPT !.alive = FALSE,
                              !.cancelled = tw.read \in {"Pending", "Empty"},
                              !.flight = 0,
                              !.cut = Cut("drop")])
  /\ UNCHANGED <<scene, ep, rdy, fdst, dupof, evts, sig, sel, wl, us, io, ret, polled, histVars,
                 customVars, wakerVars>>

\* sys/windows/tcp.rs, 430..449: drop(s2) cancels the read and no write.
TcpDrop ==
  /\ scene \in StreamScenes
  /\ tw.alive
  /\ tw' = Release([tw EXCEPT !.alive = FALSE,
                              !.cancelled = tw.read \in {"Pending", "Empty"},
                              !.cut = Cut("drop")])
  /\ UNCHANGED <<scene, ep, rdy, fdst, dupof, evts, sig, sel, wl, us, io, ret, polled, histVars,
                 customVars, wakerVars>>

\* sys/windows/tcp.rs, 419..421: s2.deregister(poll)
TcpDeregister ==
  /\ scene \in StreamScenes
  /\ tw.alive
  /\ tw.registered
  /\ tw' = [tw EXCEPT !.registered = FALSE, !.cut = Cut("deregister")]
  /\ UNCHANGED <<scene, ep, rdy, fdst, dupof, evts, sig, sel, wl, us, io, ret, polled, histVars,
                 customVars, wakerVars>>

\* sys/windows/tcp.rs, 410..417 and 244..284: s.reregister(.., READABLE, ..)
\* schedules the peer's first read.
PeerReregister ==
  /\ scene = "wtd"
  /\ ~tw.preg
  /\ tw' = [tw EXCEPT !.preg = TRUE, !.pread = "Pending", !.preadable = FALSE]
  /\ UNCHANGED <<scene, ep, rdy, fdst, dupof, evts, sig, sel, wl, us, io, ret, polled, histVars,
                 customVars, wakerVars>>

\* sys/windows/tcp.rs, 326..346: the peer's overlapped read completes with k
\* bytes and the peer becomes readable.
PeerReadDone(k) ==
  /\ scene = "wtd"
  /\ tw.pread = "Pending"
  /\ k \in 1..tw.avail
  /\ tw' = [tw EXCEPT !.pread = "Ready", !.pcur = k, !.avail = @ - k,
                      !.preadable = TRUE, !.seen = TRUE]
  /\ UNCHANGED <<scene, ep, rdy, fdst, dupof, evts, sig, sel, wl, us, io, ret, polled, histVars,
                 customVars, wakerVars>>

\* sys/windows/tcp.rs, 166..192: s.read(buf) with room for room bytes, after
\* the readable event.
PeerRead(room) ==
  /\ scene = "wtd"
  /\ tw.preadable
  /\ tw.pread = "Ready"
  /\ LET amt == IF room < tw.pcur THEN room ELSE tw.pcur
         out == TcpStreamRead(tw.pread, OsOk(amt))
     IN /\ tw' = IF out.cnt = tw.pcur
                 THEN [tw EXCEPT !.got = @ + out.cnt, !.pcur = 0, !.pread = "Pending",
                                 !.preadable = FALSE]
                 ELSE [tw EXCEPT !.got = @ + out.cnt, !.pcur = @ - out.cnt]
        /\ io' = [op |-> "TcpStream::read", os |-> OsOk(amt), st |-> tw.pread,
                  registered |-> TRUE, out |-> out]
  /\ UNCHANGED <<scene, ep, rdy, fdst, dupof, evts, sig, sel, wl, us, ret, polled, histVars,
                 customVars, wakerVars>>

\* ------------------------------------------------ the IOCP stream
\* What connect(2) answers on a non-blocking socket.
ConnectAnswers == {"ok", "EINPROGRESS", "ECONNREFUSED", "ENETUNREACH"}

\* sys/unix/socket.rs, 70..87: Socket::connect; the socket is closed on an
\* error.
connect(answer) ==
  IF answer \in {"ok", "EINPROGRESS"}
  THEN [ok |-> TRUE, err |-> "none", closed |-> FALSE]
  ELSE [ok |-> FALSE, err |-> answer, closed |-> TRUE]

\* What read_overlapped answers: it took the request, or failed at once.
Scheduled == {"ok", "ConnectionReset"}

\* Interests of a stream registration.
StreamInterests == {{readable}, {writable}, {readable, writable}}

\* sys/windows/tcp.rs, 107..110 (connect, deferred) and 87..105 (new): the
\* constructor keeps the address and touches no socket operation.
TcpStreamNew(deferred) ==
  /\ scene = "stream"
  /\ ~tw.made
  /\ tw' = [tw EXCEPT !.made = TRUE, !.alive = TRUE, !.deferred = deferred,
                      !.conn = IF deferred THEN "none" ELSE "ok", !.est = ~deferred,
                      !.refs = 1]
  /\ UNCHANGED <<scene, ep, rdy, fdst, dupof, evts, sig, sel, wl, us, io, ret, polled, histVars,
                 customVars, wakerVars>>

\* Mutant: scheduling a read leaves readable in the cached readiness.
schedule_read_KeepsReadable(t, res) ==
  IF t.read = "Pending" THEN t
  ELSE IF t.read \in {"Ready", "Error"} THEN [t EXCEPT !.readable = TRUE]
  ELSE IF res = "ok" /\ t.est
  THEN [t EXCEPT !.read = "Pending", !.rop = "read", !.rdone = -1,
                 !.early = (t.rop = "connect"), !.refs = @ + 1]
  ELSE [t EXCEPT !.read = "Error",
                 !.err = IF ~t.est THEN "NotConnected" ELSE res,
                 !.readable = TRUE,
                 !.hup = @ \/ (t.est /\ res = "ConnectionReset")]

\* sys/windows/tcp.rs, 244..284: the stream t after schedule_read; res is
\* what read_overlapped answers on a connected socket (a socket that is not
\* connected refuses the read).
schedule_read(t, res) ==
  IF t.read = "Pending" THEN t
  ELSE IF t.read \in {"Ready", "Error"} THEN [t EXCEPT !.readable = TRUE]
  ELSE IF res = "ok" /\ t.est
  THEN [t EXCEPT !.readable = FALSE, !.read = "Pending", !.rop = "read", !.rdone = -1,
                 !.early = (t.rop = "connect"), !.refs = @ + 1]
  ELSE [t EXCEPT !.read = "Error",
                 !.err = IF ~t.est THEN "NotConnected" ELSE res,
                 !.readable = TRUE,
                 !.hup = @ \/ (t.est /\ res = "ConnectionReset")]

\* Mutant: the registration schedules no read.
post_register_NoRead(t, interest, res) ==
  IF writable \in interest /\ t.write = "Empty"
  THEN [t EXCEPT !.writable = TRUE]
  ELSE t

\* Mutant: the registration latches writable whatever the write half holds.
post_register_LatchAlways(t, interest, res) ==
  LET r == IF readable \in interest THEN schedule_read(t, res) ELSE t
  IN IF writable \in interest
     THEN [r EXCEPT !.writable = TRUE]
     ELSE r

\* sys/windows/tcp.rs, 147..163
post_register(t, interest, res) ==
  LET r == IF readable \in interest THEN schedule_read(t, res) ELSE t
  IN IF writable \in interest /\ r.write = "Empty"
     THEN [r EXCEPT !.writable = TRUE]
     ELSE r

\* Mutant: register leaves the deferred address in place.
TcpRegister_KeepsDeferred(interest, res) ==
  /\ scene = "stream"
  /\ tw.made /\ tw.alive
  /\ IF tw.registered
     THEN /\ res = "ok"
          /\ tw' = tw
          /\ ret' = [op |-> "register", res |-> "EEXIST", interest |-> interest]
     ELSE IF tw.deferred
     THEN IF res = "ok"
          THEN /\ tw' = [tw EXCEPT !.registered = TRUE,
                                   !.rop = "connect", !.rdone = -1, !.conn = "pending",
                                   !.refs = @ + 1, !.connects = @ + 1]
               /\ ret' = [op |-> "register", res |-> "ok", interest |-> interest]
          ELSE /\ tw' = [tw EXCEPT !.registered = TRUE, !.deferred = FALSE]
               /\ ret' = [op |-> "register", res |-> res, interest |-> interest]
     ELSE /\ tw' = post_register([tw EXCEPT !.registered = TRUE], interest, res)
          /\ ret' = [op |-> "register", res |-> "ok", interest |-> interest]
  /\ UNCHANGED <<scene, ep, rdy, fdst, dupof, evts, sig, sel, wl, us, io, polled, histVars,
                 customVars, wakerVars>>

\* sys/windows/tcp.rs, 393..408 and 223..232: register; the selector refuses
\* a socket that is registered.
TcpRegister(interest, res) ==
  /\ scene = "stream"
  /\ tw.made /\ tw.alive
  /\ IF tw.registered
     THEN /\ res = "ok"
          /\ tw' = tw
          /\ ret' = [op |-> "register", res |-> "EEXIST", interest |-> interest]
     ELSE IF tw.deferred
     THEN IF res = "ok"
          THEN /\ tw' = [tw EXCEPT !.registered = TRUE, !.deferred = FALSE,
                                   !.rop = "connect", !.rdone = -1, !.conn = "pending",
                                   !.refs = @ + 1, !.connects = @ + 1]
               /\ ret' = [op |-> "register", res |-> "ok", interest |-> interest]
          ELSE /\ tw' = [tw EXCEPT !.registered = TRUE, !.deferred = FALSE]
               /\ ret' = [op |-> "register", res |-> res, interest |-> interest]
     ELSE /\ tw' = post_register([tw EXCEPT !.registered = TRUE], interest, res)
          /\ ret' = [op |-> "register", res |-> "ok", interest |-> interest]
  /\ UNCHANGED <<scene, ep, rdy, fdst, dupof, evts, sig, sel, wl, us, io, polled, histVars,
                 customVars, wakerVars>>

\* sys/windows/tcp.rs, 410..417
TcpReregister(interest, res) ==
  /\ scene = "stream"
  /\ tw.made /\ tw.alive
  /\ IF ~tw.registered
     THEN /\ res = "ok"
          /\ tw' = tw
          /\ ret' = [op |-> "reregister", res |-> "ENOENT", interest |-> interest]
     ELSE /\ tw' = post_register(tw, interest, res)
          /\ ret' = [op |-> "reregister", res |-> "ok", interest |-> interest]
  /\ UNCHANGED <<scene, ep, rdy, fdst, dupof, evts, sig, sel, wl, us, io, polled, histVars,
                 customVars, wakerVars>>

\* The kernel finishes the connect, well or not, and posts the completion.
\* The socket counts as connected from the moment the completion is run.
KernelConnect(ok) ==
  /\ scene = "stream"
  /\ tw.rop = "connect"
  /\ tw.rdone = -1
  /\ tw' = [tw EXCEPT !.rdone = 0, !.cok = ok]
  /\ UNCHANGED <<scene, ep, rdy, fdst, dupof, evts, sig, sel, wl, us, io, ret, polled, histVars,
                 customVars, wakerVars>>

\* The kernel finishes the connect well, and the socket is connected from
\* then on, before the completion is run.
KernelEstablishes ==
  /\ scene = "stream"
  /\ tw.rop = "connect"
  /\ tw.rdone = -1
  /\ tw' = [tw EXCEPT !.rdone = 0, !.cok = TRUE, !.est = TRUE]
  /\ UNCHANGED <<scene, ep, rdy, fdst, dupof, evts, sig, sel, wl, us, io, ret, polled, histVars,
                 customVars, wakerVars>>

\* The kernel finishes the overlapped read with k bytes and posts the
\* completion: k of the bytes that arrived, or none when the peer has closed
\* and nothing is left or when the read was cancelled.
KernelRead(k) ==
  /\ scene = "stream"
  /\ tw.rop = "read"
  /\ tw.rdone = -1
  /\ \/ k \in 1..tw.inbox
     \/ k = 0 /\ tw.inbox = 0 /\ tw.pclosed
     \/ k = 0 /\ tw.cancelled
  /\ tw' = [tw EXCEPT !.rdone = k, !.inbox = @ - k]
  /\ UNCHANGED <<scene, ep, rdy, fdst, dupof, evts, sig, sel, wl, us, io, ret, polled, histVars,
                 customVars, wakerVars>>

\* Mutant: a read of zero bytes is readable and no more.
read_done_NoHup(res) ==
  /\ scene = "stream"
  /\ tw.rop # "none"
  /\ tw.rdone >= 0
  /\ LET t == [tw EXCEPT !.rop = "none", !.rdone = -1]
     IN IF tw.read = "Pending"
        THEN /\ res = "ok"
             /\ tw' = Release([t EXCEPT !.read = "Ready", !.cur = tw.rdone,
                                        !.readable = TRUE])
        ELSE IF tw.cok
        THEN tw' = Release(schedule_read([t EXCEPT !.conn = "ok", !.est = TRUE, !.writable = TRUE], res))
        ELSE /\ res = "ok"
             /\ tw' = Release([t EXCEPT !.conn = "failed", !.readable = TRUE,
                                        !.read = "Error", !.err = "ConnectionRefused"])
  /\ UNCHANGED <<scene, ep, rdy, fdst, dupof, evts, sig, sel, wl, us, io, ret, polled, histVars,
                 customVars, wakerVars>>

\* sys/windows/tcp.rs, 326..372: the completion on the read overlapped is
\* run: of a read when the read half is Pending, of the connect otherwise.
read_done(res) ==
  /\ scene = "stream"
  /\ tw.rop # "none"
  /\ tw.rdone >= 0
  /\ LET t == [tw EXCEPT !.rop = "none", !.rdone = -1]
     IN IF tw.read = "Pending"
        THEN /\ res = "ok"
             /\ tw' = Release([t EXCEPT !.read = "Ready", !.cur = tw.rdone,
                                        !.readable = TRUE,
                                        !.hup = @ \/ tw.rdone = 0])
        ELSE IF tw.cok
        THEN tw' = Release(schedule_read([t EXCEPT !.conn = "ok", !.est = TRUE, !.writable = TRUE], res))
        ELSE /\ res = "ok"
             /\ tw' = Release([t EXCEPT !.conn = "failed", !.readable = TRUE,
                                        !.read = "Error", !.err = "ConnectionRefused"])
  /\ UNCHANGED <<scene, ep, rdy, fdst, dupof, evts, sig, sel, wl, us, io, ret, polled, histVars,
                 customVars, wakerVars>>

\* Mutant: a read that empties the buffer schedules no further read.
TcpRead_NoSchedule(room, res) ==
  /\ scene = "stream"
  /\ tw.made /\ tw.alive
  /\ LET amt == IF room < tw.cur THEN room ELSE tw.cur
         os == IF tw.read = "Error" THEN OsErr(tw.err) ELSE OsOk(amt)
         out == TcpStreamRead(tw.read, os)
     IN /\ tw.read \in {"Empty", "Pending"} => res = "ok"
        /\ tw.read = "Ready" => res = "ok"
        /\ tw' = IF tw.read \in {"Empty", "Pending"} THEN tw
                 ELSE IF tw.read = "Ready"
                 THEN IF amt = tw.cur
                      THEN [tw EXCEPT !.read = "Empty", !.cur = 0]
                      ELSE [tw EXCEPT !.cur = @ - amt]
                 ELSE schedule_read([tw EXCEPT !.read = "Empty", !.err = "none"], res)
        /\ io' = [op |-> "TcpStream::read", os |-> os, st |-> tw.read,
                  registered |-> tw.registered, out |-> out, cur |-> tw.cur]
  /\ UNCHANGED <<scene, ep, rdy, fdst, dupof, evts, sig, sel, wl, us, ret, polled, histVars,
                 customVars, wakerVars>>

\* sys/windows/tcp.rs, 329..372: the completion of the connect is run after
\* a read was issued on the same OVERLAPPED: read_done finds the read half
\* Pending and takes the completion for the read's (no byte transferred).
read_done_shared(res) ==
  /\ scene = "stream"
  /\ tw.early
  /\ LET t == [tw EXCEPT !.early = FALSE]
     IN IF tw.read = "Pending"
        THEN /\ res = "ok"
             /\ tw' = Release([t EXCEPT !.read = "Ready", !.cur = 0,
                                        !.readable = TRUE, !.hup = TRUE])
        ELSE tw' = Release(schedule_read([t EXCEPT !.conn = "ok", !.writable = TRUE], res))
  /\ UNCHANGED <<scene, ep, rdy, fdst, dupof, evts, sig, sel, wl, us, io, ret, polled, histVars,
                 customVars, wakerVars>>

\* sys/windows/tcp.rs, 166..192: read(buf) with room for room bytes.
TcpRead(room, res) ==
  /\ scene = "stream"
  /\ tw.made /\ tw.alive
  /\ LET amt == IF room < tw.cur THEN room ELSE tw.cur
         os == IF tw.read = "Error" THEN OsErr(tw.err) ELSE OsOk(amt)
         out == TcpStreamRead(tw.read, os)
     IN /\ tw.read \in {"Empty", "Pending"} => res = "ok"
        /\ tw.read = "Ready" /\ amt < tw.cur => res = "ok"
        /\ tw' = IF tw.read \in {"Empty", "Pending"} THEN tw
                 ELSE IF tw.read = "Ready"
                 THEN IF amt = tw.cur
                      THEN schedule_read([tw EXCEPT !.read = "Empty", !.cur = 0], res)
                      ELSE [tw EXCEPT !.cur = @ - amt]
                 ELSE schedule_read([tw EXCEPT !.read = "Empty", !.err = "none"], res)
        /\ io' = [op |-> "TcpStream::read", os |-> os, st |-> tw.read,
                  registered |-> tw.registered, out |-> out, cur |-> tw.cur]
  /\ UNCHANGED <<scene, ep, rdy, fdst, dupof, evts, sig, sel, wl, us, ret, polled, histVars,
                 customVars, wakerVars>>

\* The peer sends k bytes.
PeerSend(k) ==
  /\ scene = "stream"
  /\ tw.est
  /\ ~tw.pclosed
  /\ tw.sent + k <= MaxCount
  /\ tw' = [tw EXCEPT !.inbox = @ + k, !.sent = @ + k]
  /\ UNCHANGED <<scene, ep, rdy, fdst, dupof, evts, sig, sel, wl, us, io, ret, polled, histVars,
                 customVars, wakerVars>>

\* The peer closes the connection.
PeerClose ==
  /\ scene = "stream"
  /\ tw.est
  /\ ~tw.pclosed
  /\ tw' = [tw EXCEPT !.pclosed = TRUE]
  /\ UNCHANGED <<scene, ep, rdy, fdst, dupof, evts, sig, sel, wl, us, io, ret, polled, histVars,
                 customVars, wakerVars>>

\* ------------------------------------------------ the IOCP listener
\* sys/windows/tcp.rs, 451..476: TcpListener::new issues nothing.
ListenerNew ==
  /\ scene = "listener"
  /\ ~wl.made
  /\ wl' = [wl EXCEPT !.made = TRUE, !.alive = TRUE, !.refs = 1]
  /\ UNCHANGED <<scene, ep, rdy, fdst, dupof, evts, sig, sel, io, tw, us, ret, polled, histVars,
                 customVars, wakerVars>>

\* Mutant: an accept is issued whatever the accept half holds.
schedule_accept_Always(l, res) ==
  IF res = "ok"
  THEN [l EXCEPT !.readable = FALSE, !.accept = "Pending", !.nout = @ + 1,
                 !.refs = @ + 1]
  ELSE [l EXCEPT !.accept = "Error", !.readable = TRUE]

\* sys/windows/tcp.rs, 527..554: the listener l after schedule_accept; res is
\* what accept_overlapped (or the making of the socket it accepts into)
\* answers.
schedule_accept(l, res) ==
  IF l.accept # "Empty" THEN l
  ELSE IF res = "ok"
  THEN [l EXCEPT !.readable = FALSE, !.accept = "Pending", !.nout = @ + 1,
                 !.refs = @ + 1]
  ELSE [l EXCEPT !.accept = "Error", !.readable = TRUE]

\* sys/windows/tcp.rs, 587..595: register; the selector refuses a socket
\* that is registered.
ListenerRegister(res) ==
  /\ scene = "listener"
  /\ wl.made /\ wl.alive
  /\ IF wl.registered
     THEN /\ res = "ok"
          /\ wl' = wl
          /\ ret' = [op |-> "register", res |-> "EEXIST"]
     ELSE /\ wl' = schedule_accept([wl EXCEPT !.registered = TRUE], res)
          /\ ret' = [op |-> "register", res |-> "ok"]
  /\ UNCHANGED <<scene, ep, rdy, fdst, dupof, evts, sig, sel, io, tw, us, polled, histVars,
                 customVars, wakerVars>>

\* sys/windows/tcp.rs, 597..604
ListenerReregister(res) ==
  /\ scene = "listener"
  /\ wl.made /\ wl.alive
  /\ IF ~wl.registered
     THEN /\ res = "ok"
          /\ wl' = wl
          /\ ret' = [op |-> "reregister", res |-> "ENOENT"]
     ELSE /\ wl' = schedule_accept(wl, res)
          /\ ret' = [op |-> "reregister", res |-> "ok"]
  /\ UNCHANGED <<scene, ep, rdy, fdst, dupof, evts, sig, sel, io, tw, us, polled, histVars,
                 customVars, wakerVars>>

\* sys/windows/tcp.rs, 606..608
ListenerDeregister ==
  /\ scene = "listener"
  /\ wl.made /\ wl.alive
  /\ wl.registered
  /\ wl' = [wl EXCEPT !.registered = FALSE]
  /\ ret' = [op |-> "deregister", res |-> "ok"]
  /\ UNCHANGED <<scene, ep, rdy, fdst, dupof, evts, sig, sel, io, tw, us, polled, histVars,
                 customVars, wakerVars>>

\* A peer connects to the listening socket.
PeerConnect ==
  /\ scene = "listener"
  /\ wl.made
  /\ wl.arrived < MaxCount
  /\ wl' = [wl EXCEPT !.backlog = @ + 1, !.arrived = @ + 1]
  /\ UNCHANGED <<scene, ep, rdy, fdst, dupof, evts, sig, sel, io, tw, us, ret, polled, histVars,
                 customVars, wakerVars>>

\* The kernel finishes an outstanding accept and posts the completion: with
\* a connection that waited, or without one when the accept was cancelled.
KernelAccept(ok) ==
  /\ scene = "listener"
  /\ wl.nout > 0
  /\ wl.adone = -1
  /\ \/ wl.backlog > 0 /\ ~wl.cancelled
        /\ wl' = [wl EXCEPT !.adone = 0, !.aok = ok, !.backlog = @ - 1]
     \/ wl.cancelled /\ ~ok
        /\ wl' = [wl EXCEPT !.adone = 0, !.aok = FALSE]
  /\ UNCHANGED <<scene, ep, rdy, fdst, dupof, evts, sig, sel, io, tw, us, ret, polled, histVars,
                 customVars, wakerVars>>

\* sys/windows/tcp.rs, 562..585: the completion of the accept is run.
accept_done ==
  /\ scene = "listener"
  /\ wl.adone >= 0
  /\ wl.accept = "Pending"
  /\ wl' = [wl EXCEPT !.accept = IF wl.aok THEN "Ready" ELSE "Error",
                      !.parked = IF wl.aok THEN @ + 1 ELSE @,
                      !.readable = TRUE,
                      !.adone = -1, !.nout = @ - 1,
                      !.refs = @ - 1,
                      !.freed = IF wl.refs <= 1 THEN @ + 1 ELSE @]
  /\ UNCHANGED <<scene, ep, rdy, fdst, dupof, evts, sig, sel, io, tw, us, ret, polled, histVars,
                 customVars, wakerVars>>

\* sys/windows/tcp.rs, 478..496: accept(); res is what the scheduling of the
\* next accept answers.
ListenerAccept(res) ==
  /\ scene = "listener"
  /\ wl.made /\ wl.alive
  /\ IF wl.accept \in {"Empty", "Pending"}
     THEN /\ res = "ok"
          /\ wl' = wl
          /\ ret' = [op |-> "accept", res |-> "None", st |-> wl.accept]
     ELSE /\ wl' = schedule_accept([wl EXCEPT !.accept = "Empty",
                                             !.taken = IF wl.accept = "Ready" THEN @ + 1 ELSE @],
                                   res)
          /\ ret' = [op |-> "accept", res |-> IF wl.accept = "Ready" THEN "Some" ELSE "Err",
                     st |-> wl.accept]
  /\ UNCHANGED <<scene, ep, rdy, fdst, dupof, evts, sig, sel, io, tw, us, polled, histVars,
                 customVars, wakerVars>>

\* sys/windows/tcp.rs, 617..634: the drop cancels an accept that is Pending.
ListenerDrop ==
  /\ scene = "listener"
  /\ wl.alive
  /\ wl' = [wl EXCEPT !.alive = FALSE,
                      !.cancelled = wl.accept = "Pending",
                      !.refs = @ - 1,
                      !.freed = IF wl.refs <= 1 THEN @ + 1 ELSE @]
  /\ ret' = [op |-> "drop", res |-> "ok"]
  /\ UNCHANGED <<scene, ep, rdy, fdst, dupof, evts, sig, sel, io, tw, us, polled, histVars,
                 customVars, wakerVars>>

\* ------------------ a socket and its clone (udp.rs, 34..37; net.rs, 130..134)
\* UdpSocket::try_clone: dup gives a new descriptor for the same socket, and
\* the clone is built from that descriptor alone (Io::from_raw_fd).
TryClone(fd) ==
  /\ scene \in {"multi", "again"}
  /\ dupof = 0
  /\ dupof' = fd
  /\ ret' = [op |-> "try_clone", res |-> "ok"]
  /\ polled' = FALSE
  /\ UNCHANGED <<scene, ep, rdy, fdst, evts, sig, sel, wl, io, tw, us, histVars, customVars, wakerVars>>

\* The handle the caller goes on with: the socket, and its clone once the
\* socket was dropped.
Cur == IF want[1].note = "closed" THEN DupFd ELSE 1

\* net/tcp/socket.rs, 179..183: the socket is dropped while its clone lives.
\* close(2) of a descriptor whose file stays open through another descriptor
\* leaves its entry in the interest list.
DropHandle ==
  /\ scene = "again"
  /\ dupof = 1
  /\ want[1].note # "closed"
  /\ want' = [want EXCEPT ![1].note = "closed"]
  /\ ret' = [op |-> "drop", res |-> "ok"]
  /\ polled' = FALSE
  /\ UNCHANGED <<scene, epollVars, shots, edges, customVars, wakerVars>>

\* The handles the caller holds: socket 1 and, once made, its clone.
Handles == {1} \cup (IF dupof # 0 THEN {DupFd} ELSE {})

\* The arguments of test/test_register_multiple_event_loops.rs.
MultiArgs ==
  {[token |-> t, interest |-> {readable, writable}, opts |-> {edge}] : t \in Tokens}

\* Evented for UdpSocket (udp.rs, 118..130): each call is forwarded to the
\* socket's Io, which has nothing but the descriptor to hand to the selector.
UdpSocketRegister(s, h, token, interest, opts) == Register(s, h, token, interest, opts)

UdpSocketDeregister(s, h) == Deregister(s, h)

\* udp.rs, 123..125: reregister is forwarded like register.
UdpSocketReregister(s, h, token, interest, opts) == Reregister(s, h, token, interest, opts)

\* ------------------------------------ the pipe awakener (awakener.rs, unix)
Min(a, b) == IF a < b THEN a ELSE b

\* The interests and options the awakener's reading end is registered with.
AwakenerArgs ==
  {[token |-> t, interest |-> {readable}, opts |-> o] : t \in Tokens, o \in {{edge}, {level}}}

\* Evented for Awakener (lines 61..85): register is forwarded to the reader.
AwakenerRegister(token, interest, opts) == Register(1, AwFd, token, interest, opts)

\* A thread calls wakeup() or wake() on a waker that has its token (the
\* awakener is registered, the port waker was created).
WakeCall ==
  /\ scene \in {"pipe", "iocp"}
  /\ want[AwFd].on
  /\ wk.pc = "idle"
  /\ wk' = [NoWake EXCEPT !.pc = "called", !.at = cdone]
  /\ ret' = NoCall
  /\ polled' = FALSE
  /\ UNCHANGED <<scene, epollVars, histVars, customVars,
                 pipe, cl, cdone, port, ievts, nw, coal, owed>>

\* Mutant: a full pipe is an error.
wakeup_FullIsError ==
  /\ scene = "pipe"
  /\ wk.pc = "called"
  /\ IF pipe < PipeCap
     THEN /\ pipe' = pipe + 1
          /\ wk' = [wk EXCEPT !.pc = "written", !.wrote = TRUE, !.ahead = pipe]
          /\ fdst' = [fdst EXCEPT ![AwFd] = @ \cup {EPOLLIN}]
          /\ rdy' = [s \in Selectors |-> CallbackAll(ep[s], rdy[s], AwFd, {EPOLLIN})]
          /\ nw' = Bump(nw)
          /\ edges' = Raised(AwFd, EPOLLIN)
          /\ ret' = [op |-> "write", res |-> "ok"]
     ELSE /\ wk' = [wk EXCEPT !.pc = "failed"]
          /\ ret' = [op |-> "write", res |-> "WouldBlock"]
          /\ UNCHANGED <<pipe, fdst, rdy, nw, edges>>
  /\ polled' = FALSE
  /\ UNCHANGED <<scene, ep, dupof, evts, sig, sel, wl, io, tw, us, want, shots, customVars,
                 cl, cdone, port, ievts, coal, owed>>

\* Mutant: wakeup reports a write it did not make.
wakeup_NoWrite ==
  /\ scene = "pipe"
  /\ wk.pc = "called"
  /\ wk' = [wk EXCEPT !.pc = "written", !.wrote = TRUE, !.ahead = pipe]
  /\ nw' = Bump(nw)
  /\ ret' = [op |-> "write", res |-> "ok"]
  /\ polled' = FALSE
  /\ UNCHANGED <<scene, epollVars, histVars, customVars,
                 pipe, cl, cdone, port, ievts, coal, owed>>

\* Awakener::wakeup, the write (line 32): one byte goes into the pipe, the
\* reading end becomes readable and its wake-up callback runs; on a full pipe
\* the write fails with WouldBlock and nothing changes.
wakeup ==
  /\ scene = "pipe"
  /\ wk.pc = "called"
  /\ IF pipe < PipeCap
     THEN /\ pipe' = pipe + 1
          /\ wk' = [wk EXCEPT !.pc = "written", !.wrote = TRUE, !.ahead = pipe]
          /\ fdst' = [fdst EXCEPT ![AwFd] = @ \cup {EPOLLIN}]
          /\ rdy' = [s \in Selectors |-> CallbackAll(ep[s], rdy[s], AwFd, {EPOLLIN})]
          /\ nw' = Bump(nw)
          /\ edges' = Raised(AwFd, EPOLLIN)
          /\ ret' = [op |-> "write", res |-> "ok"]
     ELSE /\ wk' = [wk EXCEPT !.pc = "written"]
          /\ ret' = [op |-> "write", res |-> "WouldBlock"]
          /\ UNCHANGED <<pipe, fdst, rdy, nw, edges>>
  /\ polled' = FALSE
  /\ UNCHANGED <<scene, ep, dupof, evts, sig, sel, wl, io, tw, us, want, shots, customVars,
                 cl, cdone, port, ievts, coal, owed>>

\* wakeup() / wake() returns: Ok(_) => Ok(()), and WouldBlock => Ok(()) too
\* (lines 33..36); an error of the write is returned as it is (line 38).
WakeReturn ==
  /\ scene \in {"pipe", "iocp"}
  /\ wk.pc \in {"written", "failed"}
  /\ wk' = [wk EXCEPT !.pc = "idle", !.back = cdone]
  /\ ret' = [op |-> IF scene = "pipe" THEN "wakeup" ELSE "wake",
              res |-> IF wk.pc = "written" THEN "ok" ELSE "err"]
  /\ owed' = (owed \/ wk.pc = "written")
  /\ polled' = FALSE
  /\ UNCHANGED <<scene, epollVars, histVars, customVars,
                 pipe, cl, cdone, port, ievts, nw, coal>>

\* Awakener::cleanup, one turn of its loop (lines 47..53): a read of up to
\* CleanupBuf bytes; Ok(i) with i > 0 goes round again, anything else (the
\* pipe is empty) returns.
cleanup ==
  LET n == Min(pipe, CleanupBuf)
  IN /\ scene = "pipe"
     /\ cl = "loop" \/ cdone < MaxCleanups
     /\ IF n > 0
        THEN /\ pipe' = pipe - n
             /\ cl' = "loop"
             /\ fdst' = [fdst EXCEPT ![AwFd] = IF pipe = n THEN @ \ {EPOLLIN} ELSE @]
             /\ wk' = IF wk.wrote /\ wk.by = 0
                      THEN IF n > wk.ahead
                           THEN [wk EXCEPT !.by = cdone + 1]
                           ELSE [wk EXCEPT !.ahead = @ - n]
                      ELSE wk
             /\ nw' = IF pipe = n THEN 0 ELSE nw
             /\ ret' = [op |-> "read", res |-> "ok"]
             /\ UNCHANGED cdone
        ELSE /\ cl' = "idle"
             /\ cdone' = cdone + 1
             /\ ret' = [op |-> "cleanup", res |-> "ok"]
             /\ UNCHANGED <<pipe, fdst, wk, nw>>
     /\ polled' = FALSE
     /\ UNCHANGED <<scene, ep, rdy, dupof, evts, sig, sel, wl, io, tw, us, histVars, customVars,
                    port, ievts, coal, owed>>

\* --------------------------------- the port waker (awakener.rs, windows)
\* The packet wake() posts: no bytes, the token, a null OVERLAPPED (line 35).
CompletionStatus(token) == [bytes |-> 0, token |-> token, overlapped |-> "null"]

\* Waker::wake, the post (lines 34..36): the packet is queued on the port of
\* the selector the waker was created for.
wake ==
  /\ scene = "iocp"
  /\ wk.pc = "called"
  /\ Len(port) < PortCap
  /\ port' = Append(port, CompletionStatus(want[AwFd].token))
  /\ wk' = [wk EXCEPT !.pc = "written", !.wrote = TRUE]
  /\ nw' = Bump(nw)
  /\ ret' = [op |-> "post", res |-> "ok"]
  /\ polled' = FALSE
  /\ UNCHANGED <<scene, epollVars, histVars, customVars,
                 pipe, cl, cdone, ievts, coal, owed>>

\* The packets a select takes from the port, and the ones it leaves.
Taken == SubSeq(port, 1, Min(Len(port), EventsCap))
Left == SubSeq(port, Min(Len(port), EventsCap) + 1, Len(port))

\* select on the completion port, as sections 4.1.4 and 4.3 of the
\* specification have it: the port is drained into the batch up to its
\* capacity; a packet with a null OVERLAPPED is a wake and makes a readable
\* event with the packet's token.
IocpSelect ==
  /\ scene = "iocp"
  /\ ievts' = [i \in 1..Len(Taken) |-> [token |-> Taken[i].token, kind |-> {readable}]]
  /\ port' = Left
  /\ nw' = IF \E i \in 1..Len(Taken) : Taken[i].token = want[AwFd].token THEN 0 ELSE nw
  /\ coal' = IF \E i \in 1..Len(Taken) : Taken[i].token = want[AwFd].token THEN nw ELSE coal
  /\ owed' = (owed /\ ~\E i \in 1..Len(Taken) : Taken[i].token = want[AwFd].token)
  /\ ret' = [op |-> "select", res |-> "ok"]
  /\ polled' = TRUE
  /\ UNCHANGED <<scene, epollVars, histVars, customVars, pipe, wk, cl, cdone>>

\* ------------------------------------------------------------------ Next
Next ==
  \/ \E fd \in Fds : \E a \in RegArgs(fd) : Register(1, fd, a.token, a.interest, a.opts)
  \/ \E fd \in Fds : \E a \in RegArgs(fd) : Reregister(1, fd, a.token, a.interest, a.opts)
  \/ \E fd \in Fds : Deregister(1, fd)
  \/ Select
  \/ \E fd \in Fds : \E bit \in SockBits(fd) : Rise(fd, bit)
  \/ \E fd \in Fds : \E bit \in SockBits(fd) : Again(fd, bit)
  \/ \E fd \in Fds : \E bit \in SockBits(fd) : Drain(fd, bit)
  \/ \E a \in CustomArgs : RegistrationRegister(a.token, a.interest, a.opts)
  \/ \E new \in {{readable}, {writable}} : set_readiness(new)
  \/ PollDrain

Spec == Init /\ [][Next]_vars

\* A socket and its clone, and two selectors.
InitMulti ==
  /\ scene = "multi"
  /\ InitEpoll
  /\ InitCustom
  /\ InitWaker

NextMulti ==
  \/ TryClone(1)
  \/ \E s \in Selectors : \E h \in Handles : \E a \in MultiArgs :
       UdpSocketRegister(s, h, a.token, a.interest, a.opts)
  \/ \E s \in Selectors : \E h \in Handles : \E a \in MultiArgs :
       UdpSocketReregister(s, h, a.token, a.interest, a.opts)
  \/ \E s \in Selectors : \E h \in Handles : UdpSocketDeregister(s, h)
  \/ \E bit \in SockBits(1) : Rise(1, bit)
  \/ \E bit \in SockBits(1) : Drain(1, bit)

SpecMulti == InitMulti /\ [][NextMulti]_vars

\* Sockets registered readable, and a select whose wait may be interrupted
\* by a signal or fail.
IntrArgs ==
  {[token |-> t, interest |-> {readable}, opts |-> o] : t \in Tokens, o \in {{edge}, {level}}}

InitIntr ==
  /\ scene = "intr"
  /\ InitEpoll
  /\ InitCustom
  /\ InitWaker

NextIntr ==
  \/ \E fd \in Fds : \E a \in IntrArgs : Register(1, fd, a.token, a.interest, a.opts)
  \/ Select
  \/ \E fd \in Fds : Rise(fd, EPOLLIN)
  \/ \E fd \in Fds : Drain(fd, EPOLLIN)

SpecIntr == InitIntr /\ [][NextIntr]_vars

\* One thread inside select, step by step, while other threads register,
\* reregister and deregister the sockets.
ConcArgs(fd) ==
  IF fd = 1
  THEN {[token |-> t, interest |-> i, opts |-> o] :
          t \in Tokens, i \in {{readable}, {writable}}, o \in {{level}}}
  ELSE {[token |-> MaxToken, interest |-> {readable}, opts |-> {level}]}

InitConc ==
  /\ scene = "conc"
  /\ InitEpoll
  /\ InitCustom
  /\ InitWaker

NextConc ==
  \/ \E fd \in Fds : \E a \in ConcArgs(fd) : Register(1, fd, a.token, a.interest, a.opts)
  \/ \E fd \in Fds : \E a \in ConcArgs(fd) : Reregister(1, fd, a.token, a.interest, a.opts)
  \/ \E fd \in Fds : Deregister(1, fd)
  \/ SelectBegin
  \/ SelectWait
  \/ SelectEnd
  \/ \E fd \in Fds : \E bit \in SockBits(fd) : Rise(fd, bit)
  \/ \E fd \in Fds : \E bit \in SockBits(fd) : Drain(fd, bit)

SpecConc == InitConc /\ [][NextConc]_vars

\* Non-blocking calls, one after another, on every answer of the OS.
InitIo ==
  /\ scene = "io"
  /\ InitEpoll
  /\ InitCustom
  /\ InitWaker

NextIo ==
  \/ \E op \in Plain : \E os \in OsResults : Call(op, os)
  \/ \E st \in States : \E os \in OsResults : StreamRead(st, os)
  \/ \E st \in States : \E r \in BOOLEAN : \E os \in OsResults :
       StreamWrite(st, r, os)

SpecIo == InitIo /\ [][NextIo]_vars

\* write_then_drop and write_then_deregister: s2 writes, is dropped or
\* deregistered at any moment, the peer s reads.
InitWtd ==
  /\ scene = "wtd"
  /\ InitEpoll
  /\ InitCustom
  /\ InitWaker

NextWtd ==
  \/ \E n \in 1..MaxCount : \E ok \in BOOLEAN : TcpWrite(n, ok)
  \/ \E k \in 1..MaxCount : KernelWrite(k)
  \/ \E ok \in BOOLEAN : write_done(ok)
  \/ TcpDrop
  \/ TcpDeregister
  \/ PeerReregister
  \/ \E k \in 1..MaxBytes : PeerReadDone(k)
  \/ \E room \in 1..MaxBytes : PeerRead(room)

SpecWtd == InitWtd /\ [][NextWtd]_vars

\* The kernel finishes what it was given, a poll runs the completions, and
\* the peer registers and reads when it is told it can.
FairSpecWtd ==
  /\ SpecWtd
  /\ WF_vars(\E k \in 1..MaxCount : KernelWrite(k))
  /\ WF_vars(\E ok \in BOOLEAN : write_done(ok))
  /\ WF_vars(PeerReregister)
  /\ WF_vars(\E k \in 1..MaxBytes : PeerReadDone(k))
  /\ WF_vars(\E room \in 1..MaxBytes : PeerRead(room))

\* tests/uds.rs, 222..275 (try_clone): a socket is registered, deregistered
\* and registered again, by itself or, once it was dropped, by its clone.
AgainArgs ==
  {[token |-> t, interest |-> i, opts |-> {level}] :
     t \in Tokens, i \in {{readable}, {writable}}}

InitAgain ==
  /\ scene = "again"
  /\ InitEpoll
  /\ InitCustom
  /\ InitWaker

NextAgain ==
  \/ \E a \in AgainArgs : Register(1, Cur, a.token, a.interest, a.opts)
  \/ Deregister(1, Cur)
  \/ TryClone(1)
  \/ DropHandle
  \/ Select
  \/ \E bit \in SockBits(1) : Rise(1, bit)
  \/ \E bit \in SockBits(1) : Drain(1, bit)

SpecAgain == InitAgain /\ [][NextAgain]_vars

\* One IOCP stream from its constructor on: registered, connected, read,
\* written, deregistered and dropped in any order, with the kernel and the
\* peer doing their part.
InitStream ==
  /\ scene = "stream"
  /\ InitEpoll
  /\ InitCustom
  /\ InitWaker

NextStream ==
  \/ \E d \in BOOLEAN : TcpStreamNew(d)
  \/ \E i \in StreamInterests : \E res \in Scheduled : TcpRegister(i, res)
  \/ \E i \in StreamInterests : \E res \in Scheduled : TcpReregister(i, res)
  \/ TcpDeregister
  \/ \E ok \in BOOLEAN : KernelConnect(ok)
  \/ \E k \in 0..MaxCount : KernelRead(k)
  \/ \E res \in Scheduled : read_done(res)
  \/ \E room \in 1..MaxCount : \E res \in Scheduled : TcpRead(room, res)
  \/ \E n \in 1..MaxCount : \E ok \in BOOLEAN : TcpWrite(n, ok)
  \/ \E k \in 1..MaxCount : KernelWrite(k)
  \/ \E ok \in BOOLEAN : write_done(ok)
  \/ \E k \in 1..MaxCount : PeerSend(k)
  \/ PeerClose
  \/ TcpDrop

SpecStream == InitStream /\ [][NextStream]_vars

\* The read half of the same stream with the kernel's timing left open: a
\* connect that went well makes the socket connected before its completion
\* is run, so that calls made in between find a connected socket. The write
\* half, which has an OVERLAPPED of its own, is left out.
NextOverlap ==
  \/ \E d \in BOOLEAN : TcpStreamNew(d)
  \/ \E i \in StreamInterests : \E res \in Scheduled : TcpRegister(i, res)
  \/ \E i \in StreamInterests : \E res \in Scheduled : TcpReregister(i, res)
  \/ TcpDeregister
  \/ \E ok \in BOOLEAN : KernelConnect(ok)
  \/ KernelEstablishes
  \/ \E k \in 0..MaxCount : KernelRead(k)
  \/ \E res \in Scheduled : read_done(res)
  \/ \E res \in Scheduled : read_done_shared(res)
  \/ \E room \in 1..MaxCount : \E res \in Scheduled : TcpRead(room, res)
  \/ \E k \in 1..MaxCount : PeerSend(k)
  \/ PeerClose
  \/ TcpDrop

SpecOverlap == InitStream /\ [][NextOverlap]_vars

\* One IOCP listener from its constructor on, with peers that connect and
\* the kernel doing its part.
InitListener ==
  /\ scene = "listener"
  /\ InitEpoll
  /\ InitCustom
  /\ InitWaker

NextListener ==
  \/ ListenerNew
  \/ \E res \in Scheduled : ListenerRegister(res)
  \/ \E res \in Scheduled : ListenerReregister(res)
  \/ ListenerDeregister
  \/ PeerConnect
  \/ \E ok \in BOOLEAN : KernelAccept(ok)
  \/ accept_done
  \/ \E res \in Scheduled : ListenerAccept(res)
  \/ ListenerDrop

SpecListener == InitListener /\ [][NextListener]_vars

\* The readiness mapping alone: a registration with any interest, the
\* kernel's report of any mask that registration can get, and Events::get on
\* the slot followed by the accessors.
NativeEvents == {EPOLLIN, EPOLLOUT, EPOLLERR, EPOLLHUP, EPOLLRDHUP}

GetRegister(token, interest) ==
  /\ scene = "get"
  /\ want' = [want EXCEPT ![1] = [NoWant EXCEPT !.on = TRUE, !.token = token,
                                                 !.interest = interest, !.opts = {level},
                                                 !.note = "made"]]
  /\ evts' = << >>
  /\ ret' = [op |-> "register", res |-> "ok"]
  /\ UNCHANGED <<scene, ep, rdy, fdst, dupof, sig, sel, wl, io, tw, us, polled, shots, edges,
                 customVars, wakerVars>>

\* epoll_wait fills a slot: events asked for, and error and hangup, which
\* the kernel reports unasked.
KernelReports(mask) ==
  /\ scene = "get"
  /\ want[1].on
  /\ mask # {}
  /\ mask \subseteq (ioevent_to_epoll(want[1].interest, want[1].opts) \cup {EPOLLERR, EPOLLHUP})
  /\ evts' = << [events |-> mask, data |-> want[1].token, src |-> 1] >>
  /\ UNCHANGED <<scene, ep, rdy, fdst, dupof, sig, sel, wl, io, tw, us, ret, polled, histVars,
                 customVars, wakerVars>>

\* epoll.rs, 124..152 and poll.rs, 103..116: events.get(0) and the accessors.
Get ==
  /\ scene = "get"
  /\ Len(evts) = 1
  /\ LET e == EventsGet(evts[1])
     IN io' = [op |-> "Events::get", mask |-> evts[1].events, interest |-> want[1].interest,
               kind |-> e.kind, token |-> e.token,
               is_readable |-> IoEventIsReadable(e.kind),
               is_writable |-> IoEventIsWritable(e.kind),
               is_error |-> IoEventIsError(e.kind)]
  /\ UNCHANGED <<scene, ep, rdy, fdst, dupof, evts, sig, sel, wl, tw, us, ret, polled, histVars,
                 customVars, wakerVars>>

InitGet ==
  /\ scene = "get"
  /\ InitEpoll
  /\ InitCustom
  /\ InitWaker

NextGet ==
  \/ \E t \in Tokens : \E i \in SUBSET {readable, writable, hup} : GetRegister(t, i)
  \/ \E mask \in SUBSET NativeEvents : KernelReports(mask)
  \/ Get

SpecGet == InitGet /\ [][NextGet]_vars

\* One socket registered with every PollOpt there is (event.rs, 5..67:
\* empty, edge, level, oneshot and their unions).
PollOptAll == SUBSET {edge, level, oneshot}

InitOpts ==
  /\ scene = "opts"
  /\ InitEpoll
  /\ InitCustom
  /\ InitWaker

NextOpts ==
  \/ \E t \in Tokens : \E o \in PollOptAll : Register(1, 1, t, {readable}, o)
  \/ \E t \in Tokens : \E o \in PollOptAll : Reregister(1, 1, t, {readable}, o)
  \/ Deregister(1, 1)
  \/ Select
  \/ Rise(1, EPOLLIN)
  \/ Again(1, EPOLLIN)
  \/ Drain(1, EPOLLIN)

SpecOpts == InitOpts /\ [][NextOpts]_vars

\* The interest mapping alone: one socket registered and reregistered with
\* every Interest over readable, writable and hup and every PollOpt.
InterestAll == SUBSET {readable, writable, hup}

InitMask ==
  /\ scene = "mask"
  /\ InitEpoll
  /\ InitCustom
  /\ InitWaker

NextMask ==
  \/ \E t \in Tokens : \E i \in InterestAll : \E o \in PollOptAll : Register(1, 1, t, i, o)
  \/ \E t \in Tokens : \E i \in InterestAll : \E o \in PollOptAll : Reregister(1, 1, t, i, o)
  \/ Deregister(1, 1)

SpecMask == InitMask /\ [][NextMask]_vars

\* ------------------------------------------------ the IOCP UDP socket
\* Mutant: a buffer that is too small loses the datagram.
WinUdpRecvFrom_DropsDatagram(room, res) ==
  /\ scene = "udp"
  /\ us.made /\ us.alive
  /\ res = "ok"
  /\ us.read = "Ready" /\ room < us.len
  /\ us' = [us EXCEPT !.read = "Empty", !.len = 0]
  /\ io' = [op |-> "UdpSocket::recv_from", room |-> room, st |-> us.read, len |-> us.len,
            copied |-> 0, out |-> Returned("Err", -1, 0, "MessageSize")]
  /\ UNCHANGED <<scene, ep, rdy, fdst, dupof, evts, sig, sel, wl, tw, ret, polled, histVars,
                 customVars, wakerVars>>

\* Mutant: register does not keep the selector.
WinUdpRegister_NoSelector(interest, res) ==
  /\ scene = "udp"
  /\ us.made /\ us.alive
  /\ ~us.registered
  /\ res = "ok"
  /\ us' = [us EXCEPT !.registered = TRUE,
                      !.panicked = @ \/ (readable \in interest /\ us.read = "Empty" /\ ~us.iocp),
                      !.writable = @ \/ (writable \in interest /\ us.write = "Empty"
                                           /\ us.socket = "Bound")]
  /\ ret' = [op |-> "register", res |-> "ok", interest |-> interest]
  /\ UNCHANGED <<scene, ep, rdy, fdst, dupof, evts, sig, sel, wl, io, tw, polled, histVars,
                 customVars, wakerVars>>

\* sys/windows/udp.rs, 63..93: v4() or v6()
WinUdpNew ==
  /\ scene = "udp"
  /\ ~us.made
  /\ us' = [us EXCEPT !.made = TRUE, !.alive = TRUE, !.socket = "Building"]
  /\ ret' = [op |-> "new", res |-> "ok"]
  /\ UNCHANGED <<scene, ep, rdy, fdst, dupof, evts, sig, sel, wl, io, tw, polled, histVars,
                 customVars, wakerVars>>

\* sys/windows/udp.rs, 95..100: bind; ok is what the builder's bind answers.
WinUdpBind(ok) ==
  /\ scene = "udp"
  /\ us.made /\ us.alive
  /\ IF us.socket # "Building"
     THEN /\ ok
          /\ us' = us
          /\ ret' = [op |-> "bind", res |-> "BadState"]
     ELSE IF ok
     THEN /\ us' = [us EXCEPT !.socket = "Bound"]
          /\ ret' = [op |-> "bind", res |-> "ok"]
     ELSE /\ us' = us
          /\ ret' = [op |-> "bind", res |-> "AddrInUse"]
  /\ UNCHANGED <<scene, ep, rdy, fdst, dupof, evts, sig, sel, wl, io, tw, polled, histVars,
                 customVars, wakerVars>>

\* sys/windows/udp.rs, 262..304: the socket u after Imp::schedule_read; res
\* is what recv_from_overlapped answers.
Imp_schedule_read(u, res) ==
  IF u.read # "Empty" THEN u
  ELSE IF ~u.iocp THEN [u EXCEPT !.panicked = TRUE]
  ELSE IF u.socket # "Bound" THEN u
  ELSE IF res = "ok"
  THEN [u EXCEPT !.read = "Pending", !.rdone = -1]
  ELSE [u EXCEPT !.read = "Error", !.err = res, !.readable = TRUE]

\* sys/windows/udp.rs, 241..254
UdpSocket_post_register(u, interest, res) ==
  LET r == IF readable \in interest THEN Imp_schedule_read(u, res) ELSE u
  IN IF writable \in interest /\ r.write = "Empty" /\ r.socket = "Bound"
     THEN [r EXCEPT !.writable = TRUE]
     ELSE r

\* The answer of recv_from_overlapped matters when a read is issued.
Issues(u, interest) ==
  readable \in interest /\ u.read = "Empty" /\ u.iocp /\ u.socket = "Bound"

\* sys/windows/udp.rs, 307..325: register; the selector refuses a socket it
\* holds.
WinUdpRegister(interest, res) ==
  /\ scene = "udp"
  /\ us.made /\ us.alive
  /\ IF us.registered
     THEN /\ res = "ok"
          /\ us' = us
          /\ ret' = [op |-> "register", res |-> "EEXIST", interest |-> interest]
     ELSE LET u == [us EXCEPT !.iocp = TRUE, !.registered = TRUE]
          IN /\ ~Issues(u, interest) => res = "ok"
             /\ us' = UdpSocket_post_register(u, interest, res)
             /\ ret' = [op |-> "register", res |-> "ok", interest |-> interest]
  /\ UNCHANGED <<scene, ep, rdy, fdst, dupof, evts, sig, sel, wl, io, tw, polled, histVars,
                 customVars, wakerVars>>

\* sys/windows/udp.rs, 327..347: reregister; the selector refuses a socket it
\* does not hold.
WinUdpReregister(interest, res) ==
  /\ scene = "udp"
  /\ us.made /\ us.alive
  /\ IF ~us.iocp \/ ~us.registered
     THEN /\ res = "ok"
          /\ us' = us
          /\ ret' = [op |-> "reregister", res |-> IF ~us.iocp THEN "BadState" ELSE "ENOENT",
                     interest |-> interest]
     ELSE /\ ~Issues(us, interest) => res = "ok"
          /\ us' = UdpSocket_post_register(us, interest, res)
          /\ ret' = [op |-> "reregister", res |-> "ok", interest |-> interest]
  /\ UNCHANGED <<scene, ep, rdy, fdst, dupof, evts, sig, sel, wl, io, tw, polled, histVars,
                 customVars, wakerVars>>

\* sys/windows/udp.rs, 349..361: deregister leaves the selector reference.
WinUdpDeregister ==
  /\ scene = "udp"
  /\ us.made /\ us.alive
  /\ IF ~us.iocp \/ ~us.registered
     THEN /\ us' = us
          /\ ret' = [op |-> "deregister", res |-> IF ~us.iocp THEN "BadState" ELSE "ENOENT"]
     ELSE /\ us' = [us EXCEPT !.registered = FALSE]
          /\ ret' = [op |-> "deregister", res |-> "ok"]
  /\ UNCHANGED <<scene, ep, rdy, fdst, dupof, evts, sig, sel, wl, io, tw, polled, histVars,
                 customVars, wakerVars>>

\* sys/windows/udp.rs, 112..158: send_to; ok is what send_to_overlapped
\* answers.
WinUdpSendTo(ok) ==
  /\ scene = "udp"
  /\ us.made /\ us.alive
  /\ LET sends == us.write = "Empty" /\ us.socket = "Bound" /\ us.iocp
         os == IF us.write # "Empty" THEN OsErr("WouldBlock")
               ELSE IF us.socket # "Bound" THEN OsErr("BadState")
               ELSE IF ~us.iocp THEN OsErr("WouldBlock")
               ELSE IF ok THEN OsOk(1)
               ELSE OsErr("ConnectionReset")
     IN /\ ~sends => ok
        /\ us' = IF sends /\ ok THEN [us EXCEPT !.write = "Pending"] ELSE us
        /\ io' = [op |-> "UdpSocket::send_to", room |-> 0, st |-> us.write, len |-> 1,
                  copied |-> 0, out |-> WindowsSendTo(os)]
  /\ UNCHANGED <<scene, ep, rdy, fdst, dupof, evts, sig, sel, wl, tw, ret, polled, histVars,
                 customVars, wakerVars>>

\* sys/windows/udp.rs, 160..194: recv_from into a buffer with room for room
\* bytes; res is what recv_from_overlapped answers to the read that follows.
WinUdpRecvFrom(room, res) ==
  /\ scene = "udp"
  /\ us.made /\ us.alive
  /\ LET fits == room >= us.len
         again == \/ us.read = "Ready" /\ fits
                  \/ us.read = "Error"
     IN /\ ~again => res = "ok"
        /\ us' = IF again
                 THEN Imp_schedule_read([us EXCEPT !.read = "Empty", !.len = 0, !.err = "none"],
                                        res)
                 ELSE us
        /\ io' = [op |-> "UdpSocket::recv_from", room |-> room, st |-> us.read, len |-> us.len,
                  copied |-> IF us.read = "Ready" /\ fits THEN us.len ELSE 0,
                  out |-> IF us.read \in {"Empty", "Pending"} THEN Returned("None", -1, 0, "none")
                          ELSE IF us.read = "Error" THEN Returned("Err", -1, 0, us.err)
                          ELSE IF fits THEN Returned("Some", -1, us.len, "none")
                          ELSE Returned("Err", -1, 0, "MessageSize")]
  /\ UNCHANGED <<scene, ep, rdy, fdst, dupof, evts, sig, sel, wl, tw, ret, polled, histVars,
                 customVars, wakerVars>>

\* A peer sends a datagram of k bytes to the bound socket.
PeerSendTo(k) ==
  /\ scene = "udp"
  /\ us.socket = "Bound"
  /\ us.sent < MaxCount
  /\ us' = [us EXCEPT !.inbox = Append(@, k), !.sent = @ + 1]
  /\ UNCHANGED <<scene, ep, rdy, fdst, dupof, evts, sig, sel, wl, io, tw, ret, polled, histVars,
                 customVars, wakerVars>>

\* The kernel finishes the overlapped receive with the oldest datagram, or
\* with nothing once the socket is closed, and posts the completion.
KernelRecv ==
  /\ scene = "udp"
  /\ us.read = "Pending"
  /\ us.rdone = -1
  /\ IF us.socket = "Bound"
     THEN /\ us.inbox # << >>
          /\ us' = [us EXCEPT !.rdone = Head(us.inbox), !.inbox = Tail(@)]
     ELSE us' = [us EXCEPT !.rdone = 0]
  /\ UNCHANGED <<scene, ep, rdy, fdst, dupof, evts, sig, sel, wl, io, tw, ret, polled, histVars,
                 customVars, wakerVars>>

\* sys/windows/udp.rs, 288..296: the completion of the receive is run.
recv_done ==
  /\ scene = "udp"
  /\ us.read = "Pending"
  /\ us.rdone >= 0
  /\ us' = [us EXCEPT !.read = "Ready", !.len = us.rdone, !.rdone = -1, !.readable = TRUE]
  /\ UNCHANGED <<scene, ep, rdy, fdst, dupof, evts, sig, sel, wl, io, tw, ret, polled, histVars,
                 customVars, wakerVars>>

\* sys/windows/udp.rs, 150..156: the kernel finishes the send and its
\* completion is run.
send_done ==
  /\ scene = "udp"
  /\ us.write = "Pending"
  /\ us' = [us EXCEPT !.write = "Empty", !.writable = TRUE]
  /\ UNCHANGED <<scene, ep, rdy, fdst, dupof, evts, sig, sel, wl, io, tw, ret, polled, histVars,
                 customVars, wakerVars>>

\* A poll delivers the events handed to the selector.
WinUdpPoll ==
  /\ scene = "udp"
  /\ us.readable \/ us.writable
  /\ us' = [us EXCEPT !.readable = FALSE, !.writable = FALSE]
  /\ ret' = [op |-> "poll", res |-> "ok", r |-> us.readable, w |-> us.writable]
  /\ UNCHANGED <<scene, ep, rdy, fdst, dupof, evts, sig, sel, wl, io, tw, polled, histVars,
                 customVars, wakerVars>>

\* sys/windows/udp.rs, 370..374: drop
WinUdpDrop ==
  /\ scene = "udp"
  /\ us.alive
  /\ us' = [us EXCEPT !.alive = FALSE, !.socket = "Empty"]
  /\ UNCHANGED <<scene, ep, rdy, fdst, dupof, evts, sig, sel, wl, io, tw, ret, polled, histVars,
                 customVars, wakerVars>>

InitUdp ==
  /\ scene = "udp"
  /\ InitEpoll
  /\ InitCustom
  /\ InitWaker

NextUdp ==
  \/ WinUdpNew
  \/ \E ok \in BOOLEAN : WinUdpBind(ok)
  \/ \E i \in StreamInterests : \E res \in Scheduled : WinUdpRegister(i, res)
  \/ \E i \in StreamInterests : \E res \in Scheduled : WinUdpReregister(i, res)
  \/ WinUdpDeregister
  \/ \E ok \in BOOLEAN : WinUdpSendTo(ok)
  \/ \E room \in 1..MaxCount : \E res \in Scheduled : WinUdpRecvFrom(room, res)
  \/ \E k \in 1..MaxCount : PeerSendTo(k)
  \/ KernelRecv
  \/ recv_done
  \/ send_done
  \/ WinUdpPoll
  \/ WinUdpDrop

SpecUdp == InitUdp /\ [][NextUdp]_vars

\* ------------------------------------------------ the flag sets of event.rs
\* A value of PollOpt or Interest is the set of the flag bits it holds.
FlagTypes == {"PollOpt", "Interest"}

\* event.rs, 8..26 and 142..165: the flags a value can hold.
Flags(ty) ==
  IF ty = "PollOpt" THEN {edge, level, oneshot}
  ELSE {readable, writable, error, hup, hinted}

\* event.rs, 29..31 and 168..173
all(ty) ==
  IF ty = "PollOpt" THEN {edge} \cup {level} \cup {oneshot}
  ELSE {readable} \cup {writable} \cup {hup} \cup {error}

\* event.rs, 68..75 and 212..219
bitor(a, b) == a \cup b

\* event.rs, 86..93 and 230..237
bitand(a, b) == a \cap b

\* event.rs, 95..102 and 239..246: self.bits() & !other.bits()
sub(a, b) == a \ b

\* event.rs, 104..111 and 248..255: !self.bits() & all().bits()
not(ty, a) == all(ty) \ a

\* event.rs, 53..56 and 205..208
contains(a, b) == bitand(a, b) = b

\* event.rs, 58..61 and 190..193
insert(a, b) == a \cup b

\* event.rs, 63..66 and 195..198
remove(a, b) == a \ b

FlagOps == {"sub", "bitor", "bitand", "not", "contains", "insert", "remove"}

\* One operation of event.rs on the values a and b of one type, in a run of
\* its own.
Apply(ty, op, a, b) ==
  /\ scene = "flags"
  /\ io = NoIo
  /\ io' = [op |-> op, ty |-> ty, a |-> a, b |-> b,
            out |-> IF op = "sub" THEN sub(a, b)
                    ELSE IF op = "bitor" THEN bitor(a, b)
                    ELSE IF op = "bitand" THEN bitand(a, b)
                    ELSE IF op = "not" THEN not(ty, a)
                    ELSE IF op = "insert" THEN insert(a, b)
                    ELSE IF op = "remove" THEN remove(a, b)
                    ELSE {},
            yes |-> op = "contains" /\ contains(a, b)]
  /\ UNCHANGED <<scene, ep, rdy, fdst, dupof, evts, sig, sel, wl, tw, us, ret, polled, histVars,
                 customVars, wakerVars>>

InitFlags ==
  /\ scene = "flags"
  /\ InitEpoll
  /\ InitCustom
  /\ InitWaker

NextFlags ==
  \E ty \in FlagTypes : \E op \in FlagOps :
    \E a \in SUBSET Flags(ty) : \E b \in SUBSET Flags(ty) : Apply(ty, op, a, b)

SpecFlags == InitFlags /\ [][NextFlags]_vars

\* test_custom_evented.rs, 34..78 (set_readiness_before_register): threads
\* publish readiness, the main thread registers and polls.
QueueArgs ==
  {[token |-> t, interest |-> i, opts |-> {edge}] : t \in Tokens, i \in {{readable}, {writable}}}

InitEarly ==
  /\ scene = "early"
  /\ InitEpoll
  /\ InitCustom
  /\ InitWaker

NextEarly ==
  \/ \E i \in Regs : \E a \in QueueArgs : RegistryRegister(i, a.token, a.interest, a.opts)
  \/ \E i \in Regs : \E new \in {{readable}, {writable}} : SetReadiness(i, new, FALSE)
  \/ PollBegin
  \/ PollNode
  \/ PollEnd

SpecEarly == InitEarly /\ [][NextEarly]_vars

\* The registrations as the stress tests make them before their threads
\* start: registered readable and edge, registration i with Token(i).
Registered ==
  [i \in Regs |-> [NewReg EXCEPT !.bound = TRUE, !.token = i - 1,
                                 !.interest = {readable}, !.phase = "other"]]

\* test_custom_evented.rs, 86..198 (stress::single_threaded_poll): threads
\* publish readable, empty, writable, readable | writable, empty, ... and at
\* last readable, while the main thread reregisters and polls in turn.
InitStress ==
  /\ scene = "stress"
  /\ InitEpoll
  /\ node = NoNode /\ cevts = << >> /\ cfresh = {} /\ cseen = {}
  /\ rg = Registered
  /\ pq = << >> /\ pl = NoPoll /\ cb = << >> /\ settled = FALSE
  /\ InitWaker

NextStress ==
  \/ \E i \in Regs : \E r \in {{readable}, {writable}} :
       pl.pc = "idle" /\ RegistryReregister(i, rg[i].token, r, {edge})
  \/ \E i \in Regs : \E new \in SUBSET {readable, writable} : SetReadiness(i, new, FALSE)
  \/ \E i \in Regs : SetReadiness(i, {readable}, TRUE)
  \/ PollBegin
  \/ PollNode
  \/ PollEnd

SpecStress == InitStress /\ [][NextStress]_vars

\* test_custom_evented.rs, 200..266 (stress::with_small_events_collection):
\* every registration has a thread that keeps publishing readable, and the
\* main thread polls into a batch smaller than the number of registrations.
InitSmall ==
  /\ scene = "small"
  /\ InitEpoll
  /\ node = NoNode /\ cevts = << >> /\ cfresh = {} /\ cseen = {}
  /\ rg = Registered
  /\ pq = << >> /\ pl = NoPoll /\ cb = << >> /\ settled = FALSE
  /\ InitWaker

NextSmall ==
  \/ \E i \in Regs : SetReadiness(i, {readable}, FALSE)
  \/ PollBegin
  \/ PollNode
  \/ PollEnd

SpecSmall == InitSmall /\ [][NextSmall]_vars

\* test_custom_evented.rs, 269..332 (drop_registration_from_non_main_thread):
\* the main thread registers and polls, other threads publish readable and
\* drop the two handles.
InitDrop ==
  /\ scene = "drop"
  /\ InitEpoll
  /\ InitCustom
  /\ InitWaker

NextDrop ==
  \/ \E i \in Regs : \E t \in Tokens : RegistryRegister(i, t, {readable}, {edge})
  \/ \E i \in Regs : SetReadiness(i, {readable}, FALSE)
  \/ \E i \in Regs : DropRegistration(i)
  \/ \E i \in Regs : DropSetReadiness(i)
  \/ PollBegin
  \/ PollNode
  \/ PollEnd

SpecDrop == InitDrop /\ [][NextDrop]_vars

\* A waker and the selector it wakes: the pipe awakener on epoll, with a
\* socket beside it, or the waker of a completion port, created with a token
\* (Waker::new, lines 18..25).
InitWakerScene ==
  /\ scene \in {"pipe", "iocp"}
  /\ ep = [s \in Selectors |-> [fd \in FdSpace |-> NoReg]]
  /\ rdy = [s \in Selectors |-> << >>]
  /\ fdst = [f \in Files |-> {}]
  /\ dupof = 0
  /\ evts = << >>
  /\ sig = "none"
  /\ sel = NoSelect
  /\ io = NoIo
  /\ wl = NoListener
  /\ tw = IF scene = "wtd" THEN AcceptedStreams ELSE NoStreams
  /\ us = NoUdp
  /\ ret = NoCall
  /\ \E t \in Tokens :
       want = [fd \in FdSpace |->
                 IF scene = "iocp" /\ fd = AwFd
                 THEN [on |-> TRUE, token |-> t, interest |-> {readable},
                       opts |-> {edge}, note |-> "made"]
                 ELSE NoWant]
  /\ polled = FALSE
  /\ shots = [fd \in FdSpace |-> 0]
  /\ edges = [fd \in FdSpace |-> 0]
  /\ InitCustom
  /\ InitWaker

NextWaker ==
  \/ \E a \in AwakenerArgs : AwakenerRegister(a.token, a.interest, a.opts)
  \/ \E a \in RegArgs(2) : Register(1, 2, a.token, a.interest, a.opts)
  \/ Rise(2, EPOLLIN)
  \/ WakeCall
  \/ wakeup
  \/ wake
  \/ WakeReturn
  \/ cleanup
  \/ Select
  \/ IocpSelect

SpecWaker == InitWakerScene /\ [][NextWaker]_vars

\* The thread that owns the Poll keeps polling.
FairSpecWaker == SpecWaker /\ WF_vars(Select) /\ WF_vars(IocpSelect)

\* ================================================================ claims
\* The events of the batch that belong to descriptor fd.
EventsOf(fd) == {i \in 1..Len(evts) : evts[i].src = fd}

\* C1. Token fidelity: every event a poll delivers for a registration
\* carries the token the registration was last given; after a reregister
\* with another token the events carry the new token.
TokenFidelity ==
  (scene = "sockets" /\ polled) =>
    \A i \in 1..Len(evts) :
      want[evts[i].src].on => EventsGet(evts[i]).token = want[evts[i].src].token

\* C1 witness: a poll delivers an event for a source whose token a
\* reregister changed, and the event carries the new token.
TokenFidelityWitness ==
  /\ scene = "sockets" /\ polled
  /\ \E i \in 1..Len(evts) :
       /\ want[evts[i].src].note = "moved"
       /\ EventsGet(evts[i]).token = want[evts[i].src].token

\* C2. No event after deregister: a poll that starts after deregister has
\* returned delivers no event for the source, ready or not.
NoEventAfterDeregister ==
  (scene = "sockets" /\ polled) =>
    \A fd \in FdSpace : ~want[fd].on => EventsOf(fd) = {}

\* C2 witness: socket 1 was deregistered while readable or writable, a poll
\* has returned since, and it delivered nothing for it.
NoEventAfterDeregisterWitness ==
  /\ scene = "sockets" /\ polled
  /\ want[1].note = "gone"
  /\ fdst[1] # {}
  /\ EventsOf(1) = {}

\* C3. Oneshot exhaustion: a oneshot registration gets at most one event per
\* register / reregister, and is disarmed in the step that delivers it.
OneshotExhaustion ==
  scene = "sockets" =>
    \A fd \in Fds :
      /\ shots[fd] <= 1
      /\ (want[fd].on /\ is_oneshot(want[fd].opts) /\ shots[fd] = 1)
           => (ep[1][fd].events \subseteq EpPrivateBits)

\* C3 witness: socket 1 had its one event, is still ready for what it asked,
\* and the poll that just returned delivered nothing for it.
OneshotExhaustionWitness ==
  /\ scene = "sockets" /\ polled
  /\ want[1].on /\ is_oneshot(want[1].opts)
  /\ shots[1] = 1
  /\ (Asked(1) \cap fdst[1]) # {}
  /\ EventsOf(1) = {}

\* C4. Edge non-duplication: an edge registration gets exactly one event per
\* raise of a condition it asks for: never two, and one as soon as a poll
\* returns with room left in the batch. For a custom registration: a poll
\* delivers one event (token, readiness asked and published) if readiness
\* it asks for was published since the last poll, and none otherwise.
EdgeOnce ==
  /\ scene = "sockets" =>
       \A fd \in Fds :
         /\ edges[fd] <= 1
         /\ (/\ polled
             /\ want[fd].on /\ want[fd].opts = {edge}
             /\ (Asked(fd) \cap PollState(fd)) # {}
             /\ Len(evts) < EventsCap)
              => edges[fd] = 1
  /\ (scene = "custom" /\ polled /\ node.on) =>
       cevts = IF (cseen \cap node.interest) # {}
               THEN << [token |-> node.token, kind |-> cseen \cap node.interest] >>
               ELSE << >>

\* C4 witness: socket 1, registered readable and edge, is still readable,
\* has had its event, and the poll that just returned delivered nothing.
EdgeOnceWitness ==
  /\ scene = "sockets" /\ polled
  /\ want[1].on /\ want[1].opts = {edge} /\ is_readable(want[1].interest)
  /\ EPOLLIN \in fdst[1]
  /\ edges[1] = 1
  /\ evts = << >>

\* An event of the batch for fd whose readiness has flag k.
Reports(fd, k) == \E i \in EventsOf(fd) : k \in EventsGet(evts[i]).kind

\* C5 as stated: every poll with nonzero capacity made while a level
\* registration with readable interest is readable delivers a readable event
\* for it (taken here for the registrations that are level and nothing else,
\* the case most in the claim's favour).
LevelEveryPoll ==
  (scene = "sockets" /\ polled /\ EventsCap > 0) =>
    \A fd \in Fds :
      (want[fd].on /\ want[fd].opts = {level} /\ is_readable(want[fd].interest)
         /\ EPOLLIN \in fdst[fd])
        => Reports(fd, readable)

\* C5 as amended: for a level registration without oneshot, every poll made
\* while the source is readable delivers a readable event for it or returns
\* a full batch; the same for writable; and no poll reports readable for a
\* source that was drained.
LevelPersistence ==
  (scene = "sockets" /\ polled) =>
    \A fd \in Fds :
      /\ (want[fd].on /\ want[fd].opts = {level} /\ is_readable(want[fd].interest)
            /\ EPOLLIN \in fdst[fd])
           => (Reports(fd, readable) \/ Len(evts) = EventsCap)
      /\ (want[fd].on /\ want[fd].opts = {level} /\ is_writable(want[fd].interest)
            /\ EPOLLOUT \in fdst[fd])
           => (Reports(fd, writable) \/ Len(evts) = EventsCap)
      /\ (EPOLLIN \notin fdst[fd]) => ~Reports(fd, readable)

\* C5 witness: socket 1, level, asked for both, was drained and is writable:
\* the poll reports it writable and not readable.
LevelPersistenceWitness ==
  /\ scene = "sockets" /\ polled
  /\ want[1].on /\ want[1].opts = {level} /\ want[1].interest = {readable, writable}
  /\ fdst[1] = {EPOLLOUT}
  /\ shots[1] = 0 /\ edges[1] = 0
  /\ Reports(1, writable) /\ ~Reports(1, readable)

\* The events of the last batch that belong to the waker.
WakerEvents ==
  IF scene = "iocp"
  THEN {ievts[i] : i \in 1..Len(ievts)}
  ELSE {EventsGet(evts[i]) : i \in EventsOf(AwFd)}

\* The last batch has a free slot.
Room == IF scene = "iocp" THEN Len(ievts) < EventsCap ELSE Len(evts) < EventsCap

\* A select can still deliver the waker's event: its packet is in the port;
\* or the pipe holds a byte and the reading end is on the ready list.
Deliverable ==
  IF scene = "iocp"
  THEN \E i \in 1..Len(port) : port[i] = CompletionStatus(want[AwFd].token)
  ELSE pipe > 0 /\ InList(rdy[1], AwFd)

WakerSafe ==
  scene \in {"pipe", "iocp"} =>
    /\ nw > 0 => Deliverable
    /\ (nw > 0 /\ scene = "pipe") => EpollWait(1, EventsCap).evs # << >>
    /\ (polled /\ Room) => nw = 0
    /\ polled => \A e \in WakerEvents :
                   e.token = want[AwFd].token /\ readable \in e.kind

LifecycleStep ==
  LET Only(fd) == \A g \in FdSpace : g # fd => ep'[1][g] = ep[1][g]
  IN scene = "sockets" =>
       /\ (ret'.res \in {"EEXIST", "ENOENT"})
            => UNCHANGED <<ep, rdy, fdst, evts, want>>
       /\ (ret'.op = "register")
            => \/ ret'.res = "ok"
                    /\ \E fd \in Fds : ~ep[1][fd].on /\ ep'[1][fd].on /\ Only(fd)
               \/ ret'.res = "EEXIST" /\ \E fd \in Fds : ep[1][fd].on
       /\ (ret'.op = "reregister")
            => \/ ret'.res = "ok"
                    /\ \E fd \in Fds : ep[1][fd].on /\ ep'[1][fd].on /\ Only(fd)
               \/ ret'.res = "ENOENT" /\ \E fd \in Fds : ~ep[1][fd].on
       /\ (ret'.op = "deregister")
            => \/ ret'.res = "ok"
                    /\ \E fd \in Fds : ep[1][fd].on /\ ~ep'[1][fd].on /\ Only(fd)
               \/ ret'.res = "ENOENT" /\ \E fd \in Fds : ~ep[1][fd].on

LifecycleGuard == [][LifecycleStep]_vars

\* C8 witness: a register on a source that is registered returned EEXIST.
LifecycleGuardWitness ==
  /\ scene = "sockets"
  /\ ret = [op |-> "register", res |-> "EEXIST"]
  /\ \A fd \in Fds : want[fd].on

\* C9. A source is registered with at most one Poll at a time: a socket that
\* is registered with one selector, through the handle that opened it or
\* through a try_clone of it, is not registered with the other selector.
OnePollAtATime ==
  scene = "multi" =>
    \A h \in FdSpace : \A g \in FdSpace :
      (SockOf(h) # 0 /\ SockOf(g) = SockOf(h) /\ ep[1][h].on) => ~ep[2][g].on

\* C10 as stated: register with empty interests creates no registration.
EmptyInterestsRejected ==
  scene = "sockets" =>
    \A fd \in Fds : ~(want[fd].on /\ want[fd].note = "made" /\ want[fd].interest = {})

\* C10 as amended: register with empty interests is accepted like any other
\* register; the registration it creates carries the token and asks the
\* kernel for no readable or writable event, so that a poll can report only
\* error or hup for it.
EmptyInterestsRegistered ==
  scene = "sockets" =>
    \A fd \in Fds :
      (want[fd].on /\ want[fd].interest = {}) =>
        /\ ep[1][fd].on
        /\ ep[1][fd].data = want[fd].token
        /\ (ep[1][fd].events \ EpPrivateBits) \subseteq {EPOLLERR, EPOLLHUP}
        /\ polled => \A i \in EventsOf(fd) :
                       EventsGet(evts[i]).kind \subseteq {hinted, error, hup}

\* C10 witness: a register with empty interests has just returned Ok and
\* socket 1 is registered.
EmptyInterestsRegisteredWitness ==
  /\ scene = "sockets"
  /\ ret = [op |-> "register", res |-> "ok"]
  /\ want[1].on /\ want[1].note = "made" /\ want[1].interest = {}
  /\ ep[1][1].on

\* C11 as stated: no registration holds a PollOpt in which both edge and
\* level are set, or neither.
ExactlyOneOfEdgeLevel ==
  scene = "opts" =>
    \A fd \in Fds : want[fd].on => (is_edge(want[fd].opts) # is_level(want[fd].opts))

\* C11 as amended: register and reregister accept every PollOpt; the
\* registration is edge-triggered exactly when edge is set and level is not
\* (level wins over edge, and neither means level), and oneshot exactly when
\* oneshot is set: a level registration without oneshot is reported by every
\* poll made while the socket is readable.
PollOptAccepted ==
  scene = "opts" =>
    \A fd \in Fds :
      want[fd].on =>
        /\ ep[1][fd].on
        /\ (EPOLLET \in ep[1][fd].events)
             <=> (is_edge(want[fd].opts) /\ ~is_level(want[fd].opts))
        /\ (EPOLLONESHOT \in ep[1][fd].events) <=> is_oneshot(want[fd].opts)
        /\ (/\ polled
            /\ ~(is_edge(want[fd].opts) /\ ~is_level(want[fd].opts))
            /\ ~is_oneshot(want[fd].opts)
            /\ EPOLLIN \in fdst[fd])
             => Reports(fd, readable)

\* C11 witness: a register with edge | level has returned Ok, and the socket
\* is in the interest list without EPOLLET.
PollOptAcceptedWitness ==
  /\ scene = "opts"
  /\ ret = [op |-> "register", res |-> "ok"]
  /\ want[1].on /\ want[1].opts = {edge, level}
  /\ ep[1][1].on /\ EPOLLET \notin ep[1][1].events

\* C12. Delivered readiness stays within the current interests: in the batch
\* a select has just returned, the readable and writable bits of every event
\* are among the interests its source is registered with at that moment, and
\* what else it carries is error or hup (beside the hinted marker Events::get
\* puts on every event).
ReadinessWithinInterests ==
  (scene = "sockets" /\ ret.op = "select") =>
    \A i \in 1..Len(evts) :
      LET fd == evts[i].src
          k == EventsGet(evts[i]).kind
      IN /\ want[fd].on
         /\ (k \cap {readable, writable}) \subseteq want[fd].interest
         /\ (k \ {readable, writable, hinted}) \subseteq {error, hup}

\* C12 witness: the socket became readable, its registration went from
\* readable to writable (the token changed with it) with the old readiness
\* still on the ready list, and the select that followed delivered writable
\* alone although the socket is still readable.
ReadinessWithinInterestsWitness ==
  /\ scene = "sockets"
  /\ ret = [op |-> "select", res |-> "ok"]
  /\ want[1].on /\ want[1].interest = {writable} /\ want[1].note = "moved"
  /\ EPOLLIN \in fdst[1]
  /\ Reports(1, writable)
  /\ ~Reports(1, readable)

FinalReadinessReadable ==
  (scene = "stress" /\ settled) =>
    \A i \in Regs : rg[i].last = {readable}

\* C15. Bounded batch without loss: a poll never makes more events than the
\* Events container holds, the count it reports is the number of events in
\* the container, a registration whose word has bits is on the pending queue
\* (what did not fit stays pending), and with every registration kept
\* readable and fewer slots than registrations none waits more polls than
\* there are registrations.
BoundedBatchNoLoss ==
  scene = "small" =>
    /\ Len(pl.out) <= EventsCap
    /\ Len(cb) <= EventsCap
    /\ ret.op = "select" => (ret.res = "ok" /\ ret.n = Len(cb))
    /\ \A i \in Regs :
         /\ rg[i].readiness # {} => InList(pq, i)
         /\ rg[i].wait <= NRegs

\* C15 witness: a poll has returned a full batch while another registration,
\* readable too, did not fit and is still pending after as many polls as
\* there are registrations.
BoundedBatchNoLossWitness ==
  /\ scene = "small"
  /\ ret.op = "select"
  /\ Len(cb) = EventsCap
  /\ \E i \in Regs : Pending(i) /\ Of(cb, i) = {} /\ rg[i].wait = NRegs

\* C16. Dropping the source handle of a custom registration drops the
\* registration: whatever set_readiness calls and poll steps run around the
\* drop, a poll that begins after it succeeds and makes no event for that
\* registration; dropping the last set_readiness handle changes nothing in
\* a registration whose source handle is alive.
DropStep ==
  /\ \A i \in Regs :
       (rg[i].set /\ ~rg'[i].set /\ rg[i].src) =>
         (rg'[i] = [rg[i] EXCEPT !.set = FALSE] /\ pq' = pq)
  /\ \A k \in 1..Len(pl'.out) : pl'.out[k].src \notin pl'.gone
  /\ pl'.pc = "idle" => \A k \in 1..Len(cb') : cb'[k].src \notin pl'.gone
  /\ ret'.op = "select" => ret'.res = "ok"

InterruptedSelectOk ==
  scene = "intr" =>
    /\ ret.op = "select" =>
         /\ sig = "EINTR" => (ret.res = "ok" /\ Len(evts) = 0)
         /\ sig = "failed" <=> ret.res # "ok"
    /\ \A fd \in Fds :
         (/\ want[fd].on
          /\ EPOLLIN \in fdst[fd]
          /\ (is_edge(want[fd].opts) => edges[fd] = 0))
           => /\ InList(rdy[1], fd)
              /\ (polled /\ sig \in {"events", "resumed"})
                   => (Reports(fd, readable) \/ Len(evts) = EventsCap)

\* C17 witness: select was interrupted, socket 1 became readable, and the
\* next select delivered it.
InterruptedSelectOkWitness ==
  /\ scene = "intr"
  /\ sig = "resumed"
  /\ ret = [op |-> "select", res |-> "ok"]
  /\ want[1].on /\ want[1].opts = {level}
  /\ Reports(1, readable)

\* C18. No stale registration state under concurrency: register, reregister
\* and deregister answer as they do with no select in progress, and every
\* event of a select carries the token, and readable and writable within the
\* interests, of the registration its source had when epoll_wait copied it
\* out, which was after the select started: a registration replaced or
\* removed by a call that returned before the select started yields nothing.
NoStaleRegistration ==
  scene = "conc" =>
    /\ \A k \in 1..Len(sel.buf) :
         sel.pc = "waited" =>
           LET r == sel.at[sel.buf[k].src]
               e == EventsGet(sel.buf[k])
           IN /\ r.on
              /\ e.token = r.token
              /\ (e.kind \cap {readable, writable}) \subseteq r.interest
    /\ \A k \in 1..Len(evts) :
         sel.pc # "waited" =>
           LET r == sel.at[evts[k].src]
               e == EventsGet(evts[k])
           IN /\ r.on
              /\ e.token = r.token
              /\ (e.kind \cap {readable, writable}) \subseteq r.interest
    /\ (sel.pc = "called" /\ ret.op \in {"register", "reregister", "deregister"}) =>
         ret.res \in {"ok", "EEXIST", "ENOENT"}

\* C18 witness: while a thread was inside select, before epoll_wait, socket 1
\* was reregistered from readable to writable with the other token; the
\* select has returned the writable event with the new token although the
\* socket is still readable.
NoStaleRegistrationWitness ==
  /\ scene = "conc"
  /\ sel.pc = "idle"
  /\ ret = [op |-> "select", res |-> "ok"]
  /\ want[1].on /\ want[1].note = "moved" /\ want[1].interest = {writable}
  /\ EPOLLIN \in fdst[1]
  /\ \E k \in EventsOf(1) :
       /\ EventsGet(evts[k]).token = want[1].token
       /\ EventsGet(evts[k]).kind \cap {readable, writable} = {writable}

\* The call that was last made would have blocked in the OS.
WouldHaveBlocked ==
  IF io.op = "TcpStream::read" THEN io.st \in {"Empty", "Pending"}
  ELSE IF io.op = "TcpStream::write" THEN (io.st # "Empty" \/ ~io.registered)
  ELSE (~io.os.ok /\ io.os.kind = "WouldBlock")

WriteSurvivesDrop ==
  (scene = "wtd" /\ tw.cut # "none" /\ ~tw.failed)
    ~> (tw.failed \/ (tw.seen /\ tw.got = tw.accepted))

\* C20 witness: the stream was dropped with accepted bytes not yet with the
\* peer, and the peer has been told and has read all of them.
WriteSurvivesDropWitness ==
  /\ scene = "wtd"
  /\ tw.cut = "drop"
  /\ ~tw.alive
  /\ ~tw.failed
  /\ tw.seen
  /\ tw.accepted > 0
  /\ tw.got = tw.accepted

\* The completion of an overlapped read of zero bytes is run.
ZeroReadDone ==
  /\ tw.rop = "read"
  /\ tw.rdone = 0
  /\ tw.read = "Pending"
  /\ tw'.rop = "none"

\* C21: when the peer has closed, the read completes with zero bytes, and
\* running that completion moves the read half to Ready with an empty buffer
\* and puts readable together with hup into the cached readiness.
RemoteCloseReadableHup ==
  [][(scene = "stream" /\ ZeroReadDone) =>
       (tw'.read = "Ready" /\ tw'.cur = 0 /\ tw'.readable /\ tw'.hup)]_vars

\* C21 witness: the peer closed, nothing was cancelled, and the stream holds
\* an empty completed read and is readable with hup.
RemoteCloseReadableHupWitness ==
  /\ scene = "stream"
  /\ tw.pclosed /\ ~tw.cancelled /\ tw.registered
  /\ tw.read = "Ready" /\ tw.cur = 0
  /\ tw.readable /\ tw.hup

\* The completion of the connect is run.
ConnectDone ==
  /\ tw.rop = "connect"
  /\ tw.rdone >= 0
  /\ tw'.rdone = -1

\* What C22 says of each state: the constructor issues nothing, and the
\* connect is issued at most once.
ConnectDeferred ==
  scene = "stream" =>
    /\ tw.connects <= 1
    /\ (tw.made /\ tw.deferred) => (tw.connects = 0 /\ tw.rop = "none" /\ tw.conn = "none")
    /\ \A a \in ConnectAnswers : connect(a).ok <=> a \in {"ok", "EINPROGRESS"}

\* What C22 says of each step: the connect is issued by the first register
\* that succeeds; its completion sets writable when it went well and
\* readable with the error stored when it did not; a read on a stored error
\* returns it.
ConnectStep ==
  scene = "stream" =>
    /\ tw'.connects # tw.connects =>
         (~tw.registered /\ tw'.registered /\ ret'.op = "register" /\ ret'.res = "ok")
    /\ (tw.made /\ tw.deferred /\ tw' # tw /\ ret'.op = "register" /\ ret'.res = "ok") =>
         (tw'.connects = 1 /\ tw'.rop = "connect" /\ ~tw'.deferred)
    /\ (ConnectDone /\ tw.cok) => tw'.writable
    /\ (ConnectDone /\ ~tw.cok) =>
         (tw'.readable /\ tw'.read = "Error" /\ tw'.err = "ConnectionRefused")
    /\ (tw.read = "Error" /\ io' # io /\ io'.op = "TcpStream::read") =>
         (io'.out.res = "Err" /\ io'.out.kind = tw.err)

RegisterAgain ==
  scene = "again" =>
    /\ (ret.op = "deregister" /\ ret.res = "ok") => ~ep[1][Cur].on
    /\ (ret.op = "register" /\ ret.res # "ok") => ep[1][Cur].on
    /\ (polled /\ (want[1].note = "closed" => ~ep[1][1].on)) =>
         \A i \in 1..Len(evts) :
            /\ evts[i].src = Cur
            /\ want[Cur].on
            /\ evts[i].data = want[Cur].token
            /\ EventsGet(evts[i]).kind \subseteq (want[Cur].interest \cup {hinted, error, hup})

\* C23 witness: the socket was deregistered and dropped, its clone registered,
\* and a poll has returned an event with the clone's token.
RegisterAgainWitness ==
  /\ scene = "again"
  /\ want[1].note = "closed" /\ ~ep[1][1].on
  /\ want[DupFd].on
  /\ polled /\ Len(evts) = 1
  /\ evts[1].src = DupFd /\ evts[1].data = want[DupFd].token

\* A call of read has returned; the call and the read half it found are in
\* io', the read half it left in tw'.
ReadCalled == io' # io /\ io'.op = "TcpStream::read"

\* The read half after a read was scheduled on it: the overlapped read is
\* outstanding, or scheduling it failed and the error is stored.
ReadScheduled ==
  \/ tw'.read = "Pending" /\ tw'.rop = "read" /\ tw'.rdone = -1 /\ tw'.refs = tw.refs + 1
  \/ tw'.read = "Error" /\ tw'.err # "none" /\ tw'.refs = tw.refs

\* What C24 says of a call of read.
ReadStep ==
  (scene = "stream" /\ ReadCalled) =>
    /\ tw.read \in {"Empty", "Pending"} =>
         (io'.out.res = "Err" /\ io'.out.kind = "WouldBlock" /\ tw' = tw)
    /\ tw.read = "Ready" =>
         /\ io'.out.res = "Ok"
         /\ io'.out.cnt \in 0..tw.cur
         /\ tw.cur > 0 => io'.out.cnt > 0
         /\ io'.out.cnt < tw.cur => (tw'.read = "Ready" /\ tw'.cur = tw.cur - io'.out.cnt)
         /\ io'.out.cnt = tw.cur => ReadScheduled
    /\ tw.read = "Error" =>
         (io'.out.res = "Err" /\ io'.out.kind = tw.err /\ ReadScheduled)

\* What C24 says between the calls: a read half that is Pending stays so
\* until its completion is run, and no data comes from anything but a
\* completion.
ReadWaits ==
  scene = "stream" =>
    /\ (tw.read = "Pending" /\ tw'.read # "Pending") => (tw.rdone >= 0 /\ tw'.read = "Ready")
    /\ (tw.read # "Ready" /\ tw'.read = "Ready") => (tw.read = "Pending" /\ tw.rdone >= 0)

WriteCalled == io' # io /\ io'.op = "TcpStream::write"

\* C25: write returns would-block and touches nothing when a write is in
\* flight or the socket is not registered; otherwise it copies the bytes,
\* schedules one overlapped write, leaves the write half Pending and reports
\* the bytes copied.
OneWriteOutstanding ==
  [][(scene = "stream" /\ WriteCalled) =>
       IF tw.write = "Pending" \/ ~tw.registered
       THEN io'.out.res = "Err" /\ io'.out.kind = "WouldBlock" /\ tw' = tw
       ELSE /\ io'.out.res = "Ok" /\ io'.out.cnt = io'.os.cnt
            /\ tw'.write = "Pending" /\ tw'.len = io'.os.cnt /\ tw'.pos = 0
            /\ tw'.refs = tw.refs + 1]_vars

\* The completion of the overlapped write is run.
WriteDone == tw.write = "Pending" /\ tw.status >= 0 /\ tw'.status = -1

\* What C26 says of each step: an accepted buffer clears writable; a
\* completion short of the buffer's end schedules the rest from the new
\* position and stays Pending; writable comes back only with the completion
\* that reaches the end or with a write that could not be scheduled.
WritableStep ==
  scene = "stream" =>
    /\ (WriteCalled /\ io'.out.res = "Ok") =>
         \/ tw'.write = "Pending" /\ ~tw'.writable
         \/ tw'.write = "Error" /\ tw'.writable
    /\ (WriteDone /\ tw.pos + tw.status < tw.len /\ tw'.write = "Pending") =>
         (tw'.pos = tw.pos + tw.status /\ tw'.len = tw.len /\ ~tw'.writable)
    /\ (tw.write = "Pending" /\ tw'.writable) =>
         /\ WriteDone
         /\ \/ tw.pos + tw.status = tw.len /\ tw'.write = "Empty"
            \/ tw'.write = "Error"

AcceptState ==
  scene = "listener" =>
    /\ wl.nout <= 1
    /\ wl.nout = 1 <=> wl.accept = "Pending"
    /\ wl.readable <=> wl.accept \in {"Ready", "Error"}
    /\ wl.parked = wl.taken + (IF wl.accept = "Ready" THEN 1 ELSE 0)

\* What C28 says of each step: a register that succeeds leaves an accept
\* issued (or its error parked); the completion parks the socket or the error
\* and sets readable; accept() hands out what is parked, and leaves the half
\* with the next accept issued and readable cleared (or with the error of
\* issuing it parked); accept() with nothing parked returns None and changes
\* nothing.
AcceptStep ==
  scene = "listener" =>
    /\ (ret' # ret /\ ret'.op = "register" /\ ret'.res = "ok") => wl'.accept # "Empty"
    /\ (wl.adone >= 0 /\ wl'.adone = -1) =>
         (wl.accept = "Pending" /\ wl'.accept \in {"Ready", "Error"} /\ wl'.readable)
    /\ (ret' # ret /\ ret'.op = "accept") =>
         /\ wl.accept \in {"Empty", "Pending"} => (ret'.res = "None" /\ wl' = wl)
         /\ wl.accept = "Ready" => (ret'.res = "Some" /\ wl'.taken = wl.taken + 1)
         /\ wl.accept = "Error" => (ret'.res = "Err" /\ wl'.taken = wl.taken)
         /\ wl.accept \in {"Ready", "Error"} =>
              \/ wl'.accept = "Pending" /\ wl'.nout = 1 /\ ~wl'.readable
              \/ wl'.accept = "Error" /\ wl'.nout = 0 /\ wl'.readable

\* C28: the accept half of an IOCP listener: an accept is issued by register
\* and at most one is outstanding; its completion parks the socket or the
\* error and sets readable; accept() returns what is parked exactly once and
\* issues the next accept after clearing readable; with nothing parked it
\* returns None and changes nothing; readable is cached exactly when
\* something is parked.
ListenerAcceptMachine == []AcceptState /\ [][AcceptStep]_vars

\* C28 witness: a connection was accepted, handed out by accept(), and the
\* next accept is outstanding with readable cleared.
ListenerAcceptMachineWitness ==
  /\ scene = "listener"
  /\ ret.op = "accept" /\ ret.res = "Some"
  /\ wl.taken = 1 /\ wl.parked = 1
  /\ wl.accept = "Pending" /\ wl.nout = 1 /\ ~wl.readable

\* The overlapped operations of the stream the kernel has not answered yet.
Outstanding ==
  (IF tw.rop # "none" THEN 1 ELSE 0) + (IF tw.write = "Pending" THEN 1 ELSE 0)

\* What C29 says of each state: the record is referenced once by the handle
\* while it lives and once by every operation under way, is freed when the
\* last reference goes, and is freed once.
RecordReferences ==
  (scene = "stream" /\ tw.made) =>
    /\ tw.refs = (IF tw.alive THEN 1 ELSE 0) + Outstanding
    /\ tw.freed <= 1
    /\ tw.freed = 1 <=> tw.refs = 0

\* What C29 says of the drop: a read or a connect the kernel still holds is
\* cancelled, a write is not.
DropCancels ==
  (scene = "stream" /\ tw.alive /\ ~tw'.alive) =>
    /\ (tw.rop # "none" /\ tw.rdone = -1) => tw'.cancelled
    /\ tw'.write = tw.write /\ tw'.flight = tw.flight

\* C29: the record of an IOCP socket outlives its overlapped operations:
\* each operation that was scheduled holds one reference until its completion
\* is run, the record is freed after the last of them and once, and the drop
\* cancels a pending read or connect and no write.
RecordOutlivesOperations == []RecordReferences /\ [][DropCancels]_vars

MaskHeld == ep[1][1].events \ {EPOLLERR, EPOLLHUP}

OneOperationPerOverlapped ==
  scene = "stream" => ~(tw.early /\ tw.rop = "read")

\* C37: on a registered stream write returns would-block only while an
\* overlapped write is in flight: with none in flight a write call accepts
\* bytes or returns an error, and the write half is never left holding an
\* error that no call returns.
WriteErrorReported ==
  [][(scene = "stream" /\ WriteCalled /\ tw.registered /\ tw.write # "Pending") =>
       /\ io'.out.res = "Ok" \/ io'.out.kind # "WouldBlock"
       /\ tw'.write \in {"Empty", "Pending"}]_vars

\* What the slice operation under io::read or io::write returned.
Underlying == IF io.op = "read" THEN read_slice(io.os) ELSE write_slice(io.os)

\* C35: io::read and io::write advance the cursor of the buffer by exactly n
\* when the slice operation returned Ready(n), leave it where it was on
\* would-block and on an error, and return what the slice operation returned.
CursorFrame ==
  (scene = "io" /\ io.op \in {"read", "write"}) =>
    /\ io.out.adv = (IF io.os.ok THEN io.os.cnt ELSE 0)
    /\ io.out.res = Underlying.res
    /\ io.out.cnt = Underlying.cnt
    /\ io.out.kind = Underlying.kind
    /\ io.os.ok => (io.out.res = "Ready" /\ io.out.cnt = io.os.cnt)
    /\ (~io.os.ok /\ io.os.kind = "WouldBlock") => io.out.res = "WouldBlock"
    /\ (~io.os.ok /\ io.os.kind # "WouldBlock") =>
         (io.out.res = "Err" /\ io.out.kind = io.os.kind)

\* C35 witness: a read of two bytes has advanced the cursor by two.
CursorFrameWitness ==
  /\ scene = "io"
  /\ io.op = "read"
  /\ io.os = OsOk(2)
  /\ io.out.res = "Ready"
  /\ io.out.adv = 2

\* The laws of the flag sets on the operation the state holds, for values
\* of the type ty.
FlagLaws(ty) ==
  (scene = "flags" /\ io.op # "none" /\ io.ty = ty) =>
    /\ io.op = "sub" => io.out = bitand(io.a, not(ty, io.b))
    /\ io.op = "bitor" => contains(io.out, io.b)
    /\ io.op = "contains" => (io.yes <=> bitand(io.a, io.b) = io.b)
    /\ io.op = "insert" => contains(io.out, io.b)
    /\ io.op = "remove" => bitand(io.out, io.b) = {}
    /\ io.op = "not" => not(ty, io.out) = io.a

\* C39: PollOpt and Interest are set algebras over their flag bits: for all
\* values a and b, a - b is a & !b, (a | b) contains b, a contains b iff
\* a & b == b, a contains b after a.insert(b), a & b is empty after
\* a.remove(b), and !!a == a.
FlagSetAlgebra == FlagLaws("PollOpt") /\ FlagLaws("Interest")

\* The same laws for PollOpt alone.
PollOptAlgebra == FlagLaws("PollOpt")

\* A register or reregister of the stream with writable interest returned
\* successfully.
WritableAsked ==
  /\ scene = "stream"
  /\ ret' # ret
  /\ ret'.op \in {"register", "reregister"}
  /\ ret'.res = "ok"
  /\ writable \in ret'.interest

\* C32 as stated: after a register or reregister with writable interest on a
\* socket with no write in flight writable is in the readiness; with a write
\* in flight the registration does not latch it.
WritableLatchedAlways ==
  [][WritableAsked =>
       IF tw.write # "Pending" THEN tw'.writable ELSE tw'.writable = tw.writable]_vars

\* C32 as amended: the same of every registration but the register that
\* issues the connect of a stream made by connect, which latches nothing.
WritableLatched ==
  [][WritableAsked =>
       /\ (tw.write # "Pending" /\ ~tw.deferred) => tw'.writable
       /\ (tw.write = "Pending" \/ tw.deferred) => tw'.writable = tw.writable
       /\ tw'.write = tw.write /\ tw'.flight = tw.flight]_vars

\* C32 witness: a connected stream with nothing in its readiness and no write
\* under way has been reregistered for writable, and writable is latched
\* with no I/O issued.
WritableLatchedWitness ==
  /\ scene = "stream"
  /\ ret.op = "reregister" /\ ret.res = "ok" /\ ret.interest = {writable}
  /\ tw.conn = "ok" /\ tw.write = "Empty" /\ tw.read = "Empty"
  /\ tw.writable /\ ~tw.readable
  /\ tw.rop = "none"

\* A register or reregister of the stream with readable interest returned
\* successfully.
ReadableAsked ==
  /\ scene = "stream"
  /\ ret' # ret
  /\ ret'.op \in {"register", "reregister"}
  /\ ret'.res = "ok"
  /\ readable \in ret'.interest

\* A read is under way, or its outcome is held and readable is reported.
ReadArmed(t) ==
  \/ t.read = "Pending" /\ t.rop = "read"
  \/ t.read \in {"Ready", "Error"} /\ t.readable

\* The completion of a scheduled read is run.
ReadCompletes ==
  scene = "stream" /\ tw.read = "Pending" /\ tw.rop = "read" /\ tw.rdone >= 0 /\ tw'.rop = "none"

RegisteredWith(s, h) == \E g \in FdSpace : SockOf(g) # 0 /\ SockOf(g) = SockOf(h) /\ ep[s][g].on

\* A reregister or deregister was issued through a selector the socket is
\* not registered with, while it is registered with the other one.
WrongSelector ==
  /\ scene = "multi"
  /\ ret' # ret
  /\ ret'.op \in {"reregister", "deregister"}
  /\ ~RegisteredWith(ret'.through, ret'.fd)
  /\ \E o \in Selectors \ {ret'.through} : RegisteredWith(o, ret'.fd)

\* C36: a reregister or deregister issued through a selector other than the
\* one the source is registered with returns an error, and the registration
\* with the original selector is left as it was.
WrongSelectorRefused ==
  [][WrongSelector => (ret'.res = "ENOENT" /\ ep' = ep /\ rdy' = rdy)]_vars

\* C36 witness: the socket is registered with selector 1 alone and a
\* reregister through selector 2 was refused.
WrongSelectorRefusedWitness ==
  /\ scene = "multi"
  /\ ret.op = "reregister" /\ ret.res = "ENOENT" /\ ret.through = 2
  /\ ep[1][ret.fd].on
  /\ \A g \in FdSpace : ~ep[2][g].on

\* A recv_from was called on the UDP socket.
RecvFromCalled == scene = "udp" /\ io' # io /\ io'.op = "UdpSocket::recv_from"

ReadNeedsSelector ==
  scene = "udp" =>
    /\ ~us.panicked
    /\ us.read # "Empty" => us.iocp
    /\ us.iocp => us.made

\* C40 witness: after a deregister recv_from has taken a datagram and
\* scheduled the next read with the selector reference it still holds.
ReadNeedsSelectorWitness ==
  /\ scene = "udp"
  /\ ~us.registered /\ us.iocp /\ us.alive
  /\ io.op = "UdpSocket::recv_from" /\ io.out.res = "Some"
  /\ us.read = "Pending"

\* The UDP socket's side of C32: a registration with writable interest hands
\* a writable event to the selector when the socket is bound and no send is
\* under way, and none otherwise.
UdpWritableLatched ==
  [][(scene = "udp" /\ ret' # ret /\ ret'.op \in {"register", "reregister"}
        /\ ret'.res = "ok" /\ writable \in ret'.interest) =>
       IF us.write = "Empty" /\ us.socket = "Bound"
       THEN us'.writable
       ELSE us'.writable = us.writable]_vars

\* C27: in every reachable state of a registered stream the cached readable
\* follows the read half: it is not set while a read is Pending and it is set
\* while data or an error is stored (Ready or Error).
ReadableTracksRead ==
  (scene = "stream" /\ tw.registered) =>
    /\ tw.read = "Pending" => ~tw.readable
    /\ tw.read \in {"Ready", "Error"} => tw.readable

\* C27 witness: the stream was readable with data stored, a read took all of
\* it, and with the next read Pending the stream is readable no more.
ReadableTracksReadWitness ==
  /\ scene = "stream" /\ tw.registered
  /\ io.op = "TcpStream::read" /\ io.st = "Ready" /\ io.out.res = "Ok"
  /\ tw.read = "Pending" /\ ~tw.readable
  /\ tw.sent > 0 /\ tw.inbox = 0

====
